---- MODULE Spec2Model ----
(***************************************************************************)
(* Model of the Ignition -> TwinCAT struct converter                       *)
(* (src/ignition_to_twincat.py, class IgnitionToTwinCATConverter).         *)
(*                                                                         *)
(* Python strings are TLA+ strings; a character is a string of length 1.   *)
(* A JSON object / Python dict is a function whose DOMAIN is its key set,  *)
(* so a missing key is a key outside the DOMAIN.  A Python value that may  *)
(* be None is a sequence: <<>> is None and <<v>> is the value v.           *)
(*                                                                         *)
(* The module also models the version selection of                         *)
(* src/extract_udts_from_big_json.py and the KEPware -> Beckhoff remap of  *)
(* src/Ignition-RW-Standard-BeckhoffConverted/convert_kepware_to_beckhoff.py; *)
(* each program has its own specification over its own variables.          *)
(***************************************************************************)
EXTENDS Naturals, Sequences, FiniteSets, TLC

VARIABLES
    pc,            \* position of the driver: "new", "loaded", "load_failed", "saved", "save_failed",
                   \* "types", "names", "extract", "extracted", "remap", "converted", "convert_failed",
                   \* "reconverted", "reconvert_failed", "struct_batch", "struct_loop", "struct_exited",
                   \* "remap_batch", "remap_loop", "remap_exited"
    corpus,        \* record names found in the directory Ignition-RW-Standard-ExtractedUDTs
    udt_mapping,   \* self.udt_mapping : type id -> struct name
    json_file,     \* what the path given to the last load_ignition_json held (<<>> before any load)
    struct_name,   \* self.struct_name
    tags,          \* self.tags : the classified entry list
    warnings,      \* the "Warning: ..." lines printed so far
    output,        \* the file written by save_twincat_file (<<>> while none is written)
    ignition_type, \* arguments of the _map_data_type calls of print_summary so far
    twincat_type,  \* their return values
    convert_calls, \* the _convert_to_twincat_name calls so far: argument and return value
    sanitize_calls,\* the _sanitize_name + _sanitize_variable_name calls so far: argument and return value
    big_json_data, \* extract_udts_from_big_json: the 'tags' list of the big export
    udt_groups,    \* extract_udts_from_big_json: base name -> list of (name, priority, data)
    latest_udts,   \* extract_udts_from_big_json: name -> data of the records selected
    udt_data,      \* convert_udt: the JSON object loaded from the input file (<<>> before the call)
    output_file,   \* convert_udt: the JSON object written to the output file (<<>> while none)
    conversion_stats, \* KEPwareToBeckhoffConverter.conversion_stats
    load_calls,    \* the load_ignition_json calls on the converter so far: file and return value
    json_files,    \* batch: what the *.json files of the source directory hold, in glob order
    processed,     \* batch: number of files the loop has gone through
    successful_conversions, \* batch: the success list (struct batch) or counter (remap batch)
    failed_conversions,     \* batch: the failure list (struct batch) or counter (remap batch)
    stats_log,     \* remap batch: the counters printed after each converted record
    exit_status    \* batch: exit status of the process (<<>> while it runs)

\* the variables of the name-transform calls, of the extraction and of the remap
names_vars   == <<convert_calls, sanitize_calls>>
extract_vars == <<big_json_data, udt_groups, latest_udts>>
remap_vars   == <<udt_data, output_file, conversion_stats>>
batch_vars   == <<json_files, processed, successful_conversions, failed_conversions,
                 stats_log, exit_status>>

vars == <<pc, corpus, udt_mapping, json_file, struct_name, tags, warnings, output,
          ignition_type, twincat_type, names_vars, extract_vars, remap_vars,
          load_calls, batch_vars>>

(***************************************************************************)
(* Bounds of the model.                                                    *)
(***************************************************************************)
MaxNodes == 3      \* nodes (folders and leaves together) in an input tree
MaxCalls == 2      \* direct calls of a function in SpecTypes and SpecNames
MaxRecords == 3    \* records in the 'tags' list of the big export
MaxTags == 2       \* nodes in the top-level 'tags' list of a record that is remapped

(***************************************************************************)
(* Characters and Python string methods.                                   *)
(***************************************************************************)
UpperLetters == <<"A","B","C","D","E","F","G","H","I","J","K","L","M",
                  "N","O","P","Q","R","S","T","U","V","W","X","Y","Z">>
LowerLetters == <<"a","b","c","d","e","f","g","h","i","j","k","l","m",
                  "n","o","p","q","r","s","t","u","v","w","x","y","z">>
Digits == {"0","1","2","3","4","5","6","7","8","9"}

Range(f) == {f[i] : i \in DOMAIN f}
AsciiLetters == Range(UpperLetters) \cup Range(LowerLetters)

\* str.upper() / str.lower() on one character
UpperChar(c) ==
    IF \E i \in DOMAIN LowerLetters : LowerLetters[i] = c
    THEN UpperLetters[CHOOSE i \in DOMAIN LowerLetters : LowerLetters[i] = c]
    ELSE c
LowerCaseOf ==
    [c \in Range(UpperLetters) |->
        LowerLetters[CHOOSE i \in DOMAIN UpperLetters : UpperLetters[i] = c]]
LowerChar(c) == IF c \in DOMAIN LowerCaseOf THEN LowerCaseOf[c] ELSE c

CharAt(s, i) == SubSeq(s, i, i)

\* str.lower()
RECURSIVE Lower(_)
Lower(s) ==
    IF Len(s) = 0 THEN "" ELSE LowerChar(CharAt(s, 1)) \o Lower(Tail(s))

\* str.capitalize(): first character upper-cased, the rest lower-cased
Capitalize(s) ==
    IF Len(s) = 0 THEN "" ELSE UpperChar(CharAt(s, 1)) \o Lower(Tail(s))

\* str.split('_')
RECURSIVE SplitFrom(_, _)
SplitFrom(s, cur) ==
    IF Len(s) = 0 THEN <<cur>>
    ELSE IF CharAt(s, 1) = "_" THEN <<cur>> \o SplitFrom(Tail(s), "")
    ELSE SplitFrom(Tail(s), cur \o CharAt(s, 1))
Split(s) == SplitFrom(s, "")

\* ''.join(parts)
RECURSIVE Join(_)
Join(parts) == IF parts = <<>> THEN "" ELSE Head(parts) \o Join(Tail(parts))

\* str.replace(old, new) for a single character old
RECURSIVE ReplaceChar(_, _, _)
ReplaceChar(s, old, new) ==
    IF Len(s) = 0 THEN ""
    ELSE (IF CharAt(s, 1) = old THEN new ELSE CharAt(s, 1)) \o ReplaceChar(Tail(s), old, new)

\* str.rstrip('_') and str.strip('_')
RECURSIVE RStrip(_)
RStrip(s) ==
    IF Len(s) > 0 /\ CharAt(s, Len(s)) = "_" THEN RStrip(SubSeq(s, 1, Len(s) - 1)) ELSE s
RECURSIVE LStrip(_)
LStrip(s) ==
    IF Len(s) > 0 /\ CharAt(s, 1) = "_" THEN LStrip(Tail(s)) ELSE s
Strip(s) == LStrip(RStrip(s))

\* re.sub(r'_+', '_', s)
RECURSIVE CollapseUnderscores(_)
CollapseUnderscores(s) ==
    IF Len(s) = 0 THEN ""
    ELSE IF Len(s) >= 2 /\ CharAt(s, 1) = "_" /\ CharAt(s, 2) = "_"
         THEN CollapseUnderscores(Tail(s))
         ELSE CharAt(s, 1) \o CollapseUnderscores(Tail(s))

\* re.sub(r'_V\d+$', '', s): the longest-leftmost match is the suffix "_V"
\* followed by the trailing run of digits, when that run is not empty
RECURSIVE TrailingDigits(_)
TrailingDigits(s) ==
    IF Len(s) > 0 /\ CharAt(s, Len(s)) \in Digits
    THEN TrailingDigits(SubSeq(s, 1, Len(s) - 1)) + 1 ELSE 0
StripVersionSuffix(s) ==
    LET d == TrailingDigits(s)
        k == Len(s) - d
    IN
    IF d >= 1 /\ k >= 2 /\ SubSeq(s, k - 1, k) = "_V"
    THEN SubSeq(s, 1, k - 2) ELSE s

(***************************************************************************)
(* Name transforms of the converter.                                       *)
(***************************************************************************)
\* letters and digits outside ASCII that occur in the names of the input
\* universe; for a str pattern \w matches them (Unicode word characters)
UnicodeWordChars == {"é", "ß", "²"}

\* re.sub(r'[^\w]', '_', name): \w is a letter, a digit or the underscore,
\* ASCII or not
IsWordChar(c) == c \in AsciiLetters \cup Digits \cup {"_"} \cup UnicodeWordChars
RECURSIVE SubNonWord(_)
SubNonWord(s) ==
    IF Len(s) = 0 THEN ""
    ELSE (IF IsWordChar(CharAt(s, 1)) THEN CharAt(s, 1) ELSE "_") \o SubNonWord(Tail(s))

\* _sanitize_name
SanitizeName(name) == Strip(CollapseUnderscores(SubNonWord(name)))

\* re.sub(r'[^a-zA-Z0-9_]', '_', name)
IsAsciiIdentChar(c) == c \in AsciiLetters \cup Digits \cup {"_"}
RECURSIVE SubNonAscii(_)
SubNonAscii(s) ==
    IF Len(s) = 0 THEN ""
    ELSE (IF IsAsciiIdentChar(CharAt(s, 1)) THEN CharAt(s, 1) ELSE "_") \o SubNonAscii(Tail(s))

\* _sanitize_variable_name
SanitizeVariableName(name) ==
    LET sanitized == SubNonAscii(name) IN
    IF Len(sanitized) > 0
       /\ ~(CharAt(sanitized, 1) \in AsciiLetters \/ CharAt(sanitized, 1) = "_")
    THEN "_" \o sanitized ELSE sanitized

\* [part.capitalize() for part in parts]
RECURSIVE CapitalizeAll(_)
CapitalizeAll(parts) ==
    IF parts = <<>> THEN <<>> ELSE <<Capitalize(Head(parts))>> \o CapitalizeAll(Tail(parts))

\* the parts collected by the character loop of _generate_twincat_struct_name:
\* the non-empty underscore-separated runs, each capitalized
NonEmptyParts(parts) == SelectSeq(parts, LAMBDA p : p # "")

\* _generate_twincat_struct_name
GenerateTwincatStructName(ignition_name) ==
    "ST_" \o Join(CapitalizeAll(NonEmptyParts(Split(ignition_name)))) \o "_HMI_IgnitionExp"

\* the identifier declared for a node name: _sanitize_name when the entry is
\* built, _sanitize_variable_name when its line is generated
SanitizeIdentifier(name) == SanitizeVariableName(SanitizeName(name))

\* variant of _convert_to_twincat_name: the version suffix is not stripped
ConvertToTwincatNameKeepingSuffix(ignition_name) ==
    LET parts == Split(ignition_name) IN
    IF Len(parts) >= 3 /\ parts[1] = "RW"
    THEN "ST_RW_" \o Join(CapitalizeAll(Tail(parts))) \o "_HMI_IgnitionExp"
    ELSE "ST_" \o ReplaceChar(ignition_name, "_", "") \o "_HMI_IgnitionExp"

\* _convert_to_twincat_name
ConvertToTwincatName(ignition_name) ==
    LET name  == StripVersionSuffix(ignition_name)
        parts == Split(name)
    IN
    IF Len(parts) >= 3 /\ parts[1] = "RW"
    THEN "ST_RW_" \o Join(CapitalizeAll(Tail(parts))) \o "_HMI_IgnitionExp"
    ELSE "ST_" \o ReplaceChar(name, "_", "") \o "_HMI_IgnitionExp"

(***************************************************************************)
(* The type mapping table.                                                 *)
(***************************************************************************)
\* DATA_TYPE_MAPPING; the key 'Boolean' is written twice in the source with
\* the same value, the dict literal keeps one entry
DATA_TYPE_MAPPING ==
    ("Boolean" :> "BOOL") @@ ("Byte" :> "USINT") @@ ("Short" :> "INT") @@
    ("Integer" :> "DINT") @@ ("Long" :> "LINT") @@ ("Float" :> "REAL") @@
    ("Double" :> "LREAL") @@ ("String" :> "STRING") @@ ("DateTime" :> "DT") @@
    ("Float4" :> "REAL") @@ ("Float8" :> "LREAL") @@ ("Int4" :> "DINT") @@
    ("Int8" :> "SINT") @@ ("Int16" :> "INT") @@ ("Int32" :> "DINT") @@
    ("UInt16" :> "UINT") @@ ("UInt32" :> "UDINT") @@
    ("Byte Array" :> "ARRAY[0..255] OF USINT") @@
    ("Short Array" :> "ARRAY[0..255] OF INT") @@
    ("Integer Array" :> "ARRAY[0..255] OF DINT") @@
    ("Long Array" :> "ARRAY[0..255] OF LINT") @@
    ("Float Array" :> "ARRAY[0..255] OF REAL") @@
    ("Double Array" :> "ARRAY[0..255] OF LREAL") @@
    ("Boolean Array" :> "ARRAY[0..255] OF BOOL") @@
    ("String Array" :> "ARRAY[0..255] OF STRING") @@
    ("DateTime Array" :> "ARRAY[0..255] OF DT") @@
    ("StringArray" :> "ARRAY[0..255] OF STRING")

\* the print of _map_data_type
UnknownDataTypeWarning(t) == "Warning: Unknown data type '" \o t \o "', using as-is"

\* variant of _map_data_type: the lookup ignores case
MapDataTypeIgnoringCase(t) ==
    LET hits   == {k \in DOMAIN DATA_TYPE_MAPPING : Lower(k) = Lower(t)}
        mapped == IF hits # {} THEN DATA_TYPE_MAPPING[CHOOSE k \in hits : TRUE] ELSE t
    IN
    [ type  |-> mapped,
      warns |-> IF hits = {} THEN <<UnknownDataTypeWarning(t)>> ELSE <<>> ]

\* _map_data_type: the returned type and the lines it prints
MapDataType(t) ==
    LET mapped == IF t \in DOMAIN DATA_TYPE_MAPPING THEN DATA_TYPE_MAPPING[t] ELSE t IN
    [ type  |-> mapped,
      warns |-> IF mapped = t /\ t \notin DOMAIN DATA_TYPE_MAPPING
                THEN <<UnknownDataTypeWarning(t)>> ELSE <<>> ]

(***************************************************************************)
(* Inputs: the directory scanned by the resolver and the file converted.   *)
(***************************************************************************)
\* dict.get(key, default)
Get(d, key, default) == IF key \in DOMAIN d THEN d[key] ELSE default

\* names of the records that may lie in Ignition-RW-Standard-ExtractedUDTs
CorpusNames == {"RW_Analog_In"}

\* leaf nodes of an input tree
Leaves ==
    { [name |-> "x 1", dataType |-> "Boolean"],
      [tagType |-> "AtomicTag", name |-> "#", dataType |-> "boolean", readOnly |-> TRUE],
      [tagType |-> "AtomicTag", dataType |-> "Boolean"],
      [tagType |-> "AtomicTag", name |-> "x 1"],
      [tagType |-> "UdtInstance", name |-> "x 1", typeId |-> "Redwood/RW_Analog_In"],
      [tagType |-> "UdtInstance", typeId |-> "Redwood/RW_Analog_In"] }

FolderNames == {"A", "#"}

Folder(nm, children) == [tagType |-> "Folder", name |-> nm, tags |-> children]

\* the node lists with exactly n nodes, folders included
RECURSIVE TreesOfSize(_), ForestsOfSize(_)
TreesOfSize(n) ==
    (IF n = 1 THEN Leaves ELSE {})
    \cup {Folder(nm, f) : nm \in FolderNames, f \in ForestsOfSize(n - 1)}
ForestsOfSize(n) ==
    IF n = 0 THEN {<<>>}
    ELSE UNION {{<<t>> \o f : t \in TreesOfSize(k), f \in ForestsOfSize(n - k)} : k \in 1..n}

Forests == UNION {ForestsOfSize(n) : n \in 0..MaxNodes}

RecordNames == {"RW_Analog_In", "Valve_V2"}

\* what open() + json.load() of the input path can give
JsonFiles ==
    { [kind |-> "missing"], [kind |-> "invalid"] }
    \cup { [kind |-> "json", content |-> [name |-> n, tags |-> f]] :
             n \in RecordNames, f \in Forests }

(***************************************************************************)
(* The converter.                                                          *)
(***************************************************************************)
\* _build_udt_mapping over the record names of the scanned directory
\* (a missing directory scans as the empty set)
BuildUdtMapping(names) ==
    [ type_id \in {"Redwood/" \o n : n \in {m \in names : m # ""}} |->
        GenerateTwincatStructName(
            CHOOSE n \in names : "Redwood/" \o n = type_id) ]

\* tag.get('name', 'Unknown') of the tree walk
TagName(tag) == Get(tag, "name", "Unknown")

\* folder_prefix.rstrip('_') if folder_prefix else None
FolderPath(folder_prefix) ==
    IF folder_prefix # "" THEN <<RStrip(folder_prefix)>> ELSE <<>>

\* new_prefix of a Folder node
NewPrefix(folder_prefix, folder_name) ==
    IF folder_prefix # "" THEN folder_prefix \o folder_name \o "_" ELSE folder_name \o "_"

\* prefixed_name of a UdtInstance node
PrefixedName(folder_prefix, instance_name) ==
    IF folder_prefix # "" THEN folder_prefix \o instance_name ELSE instance_name

\* variant of the append: the entry goes to the front of the list
AppendTagInFront(acc, entry) == [acc EXCEPT !.tags = <<entry>> \o @]

\* self.tags.append(entry); acc is the pair (self.tags, printed warnings)
AppendTag(acc, entry) == [acc EXCEPT !.tags = Append(@, entry)]

\* the print of the unresolved-reference branch
UnknownUdtWarning(type_id, tag_name) ==
    "Warning: Unknown UDT type '" \o type_id \o "' for instance '" \o tag_name \o "'"

\* variant of the unresolved-reference branch: it warns and still appends a
\* reference entry, typed with the unresolved type id
UnknownUdtStillEmits(acc, type_id, tag_name) ==
    [acc EXCEPT !.warnings = Append(@, UnknownUdtWarning(type_id, tag_name)),
                !.tags = Append(@, [ name             |-> SanitizeName(tag_name),
                                     twincat_type     |-> type_id,
                                     access_rights    |-> "ReadWrite",
                                     tooltip          |-> "",
                                     is_udt_reference |-> TRUE,
                                     folder_path      |-> <<>> ])]

\* the else branch of `if type_id in self.udt_mapping`
UnknownUdt(acc, type_id, tag_name) ==
    [acc EXCEPT !.warnings = Append(@, UnknownUdtWarning(type_id, tag_name))]

\* the UdtInstance branch of _extract_tags_with_nested_structs
UdtInstanceStep(tag, folder_prefix, acc) ==
    LET type_id       == Get(tag, "typeId", "")
        tag_name      == TagName(tag)
        instance_name == SanitizeName(tag_name)
        prefixed_name == PrefixedName(folder_prefix, instance_name)
    IN
    IF type_id \in DOMAIN udt_mapping
    THEN AppendTag(acc,
            [ name             |-> prefixed_name,
              twincat_type     |-> udt_mapping[type_id],
              access_rights    |-> "ReadWrite",
              tooltip          |-> "UDT Instance: " \o tag_name \o " (" \o type_id \o ")",
              is_udt_reference |-> TRUE,
              folder_path      |-> FolderPath(folder_prefix) ])
    ELSE UnknownUdt(acc, type_id, tag_name)

\* _extract_tag_info: <<>> is None.  The input nodes carry no tooltip key,
\* so the tooltip is the default ''.
ExtractTagInfo(tag) ==
    LET name      == Get(tag, "name", "")
        data_type == Get(tag, "dataType", "")
    IN
    IF name = "" \/ data_type = "" THEN <<>>
    ELSE << [ name     |-> SanitizeName(name),
              dataType |-> data_type,
              tooltip  |-> "",
              readOnly |-> Get(tag, "readOnly", FALSE) ] >>

\* the AtomicTag branch of _extract_tags_with_nested_structs
AtomicStep(tag, folder_prefix, acc) ==
    LET tag_info == ExtractTagInfo(tag) IN
    IF tag_info # <<>>
    THEN AppendTag(acc, tag_info[1] @@ [folder_path |-> FolderPath(folder_prefix)])
    ELSE acc

\* an entry of a 'tags' list that is a JSON string s, not an object, is the
\* value [str |-> s]
IsJsonObject(tag) == "str" \notin DOMAIN tag

\* tag.get(...) on an entry that is not an object raises AttributeError: the
\* walk stops, self.tags keeps what was appended so far
Raised(acc) == Get(acc, "raised", FALSE)
Raise(acc) == [k \in DOMAIN acc \cup {"raised"} |-> IF k = "raised" THEN TRUE ELSE acc[k]]

\* _extract_tags_with_nested_structs
RECURSIVE ExtractTagsWithNestedStructs(_, _, _)
ExtractTagsWithNestedStructs(tags_array, folder_prefix, acc) ==
    IF tags_array = <<>> \/ Raised(acc) THEN acc
    ELSE IF ~IsJsonObject(Head(tags_array)) THEN Raise(acc)
    ELSE
      LET tag      == Head(tags_array)
          tag_type == Get(tag, "tagType", "")
          next ==
            IF tag_type = "Folder"
            THEN ExtractTagsWithNestedStructs(
                     Get(tag, "tags", <<>>),
                     NewPrefix(folder_prefix, SanitizeName(TagName(tag))),
                     acc)
            ELSE IF tag_type = "UdtInstance"
            THEN UdtInstanceStep(tag, folder_prefix, acc)
            ELSE IF tag_type = "AtomicTag" \/ Get(tag, "dataType", "") # ""
            THEN AtomicStep(tag, folder_prefix, acc)
            ELSE acc
      IN ExtractTagsWithNestedStructs(Tail(tags_array), folder_prefix, next)

\* truthiness of tag.get(key) for the keys read by the emitter
IsUdtReference(tag) == "is_udt_reference" \in DOMAIN tag /\ tag.is_udt_reference
IsReadOnly(tag)     == "readOnly" \in DOMAIN tag /\ tag.readOnly
HasTooltip(tag)     == "tooltip" \in DOMAIN tag /\ tag.tooltip # ""
HasFolderPath(tag)  ==
    "folder_path" \in DOMAIN tag /\ tag.folder_path # <<>> /\ tag.folder_path[1] # ""

\* the default literal chosen by _generate_tag_line for a target type
DefaultLiteral(target) ==
    IF target = "BOOL" THEN " := FALSE"
    ELSE IF target \in {"REAL", "LREAL"} THEN " := 0.0"
    ELSE IF target \in {"SINT", "INT", "DINT", "LINT", "USINT", "UINT", "UDINT",
                        "ULINT", "BYTE", "WORD", "DWORD", "LWORD"} THEN " := 0"
    ELSE IF target \in {"STRING", "WSTRING"} THEN " := ''"
    ELSE IF target = "DT" THEN " := DT#1970-01-01-00:00:00"
    ELSE ""

\* the folder-path comment of _generate_tag_line
FolderComment(tag) == "\t\t// Folder: " \o ReplaceChar(tag.folder_path[1], "_", "/")

\* _generate_tag_line: the declaration line, kept as its parts
\* (var_line = var_name : twincat_type default ; comment), and what it prints
GenerateTagLine(tag) ==
    LET var_name == SanitizeVariableName(tag.name) IN
    IF IsUdtReference(tag)
    THEN [ line  |-> [ kind         |-> "decl",
                       var_name     |-> var_name,
                       twincat_type |-> tag.twincat_type,
                       default      |-> "",
                       comment      |-> IF HasTooltip(tag)
                                        THEN "\t\t// " \o tag.tooltip ELSE "" ],
           warns |-> <<>> ]
    ELSE
      LET m == MapDataType(tag.dataType) IN
      [ line  |-> [ kind         |-> "decl",
                    var_name     |-> var_name,
                    twincat_type |-> m.type,
                    default      |-> DefaultLiteral(m.type),
                    comment      |->
                        (IF IsReadOnly(tag) THEN "\t\t// Read-only tag" ELSE "")
                        \o (IF ~HasFolderPath(tag) THEN ""
                            ELSE IF ~IsReadOnly(tag) THEN FolderComment(tag)
                            ELSE ", " \o SubSeq(FolderComment(tag), 3, Len(FolderComment(tag)))) ],
        warns |-> m.warns ]

Text(t) == [kind |-> "text", text |-> t]

\* _generate_opc_pragmas
GenerateOpcPragmas(tag) ==
    << Text("        {attribute 'OPC.UA.DA' := '1'}") >>
    \o (IF IsUdtReference(tag)
        THEN << Text("        {attribute 'OPC.UA.DA.StructuredType' := '1'}") >> ELSE <<>>)
    \o (IF IsReadOnly(tag)
        THEN << Text("        {attribute 'OPC.UA.DA.Access' := '1'}") >> ELSE <<>>)
    \o (IF HasTooltip(tag)
        THEN << Text("        {attribute 'OPC.UA.DA.Description' := '"
                     \o tag.tooltip \o "'}") >> ELSE <<>>)

\* the block generate_twincat_struct emits for entry i of self.tags
\* (i counts from 0 as enumerate does)
TagBlock(i, tag) ==
    LET l == GenerateTagLine(tag) IN
    [ lines |->
        (IF i > 0 /\ i % 5 = 0 THEN << Text("") >> ELSE <<>>)
        \o (IF ~IsUdtReference(tag)
            THEN GenerateOpcPragmas(tag)
                 \o (IF HasTooltip(tag) /\ ~HasFolderPath(tag)
                     THEN << Text("        // " \o tag.tooltip) >> ELSE <<>>)
            ELSE <<>>)
        \o << l.line >>,
      warns |-> l.warns ]

RECURSIVE TagBlocks(_, _)
TagBlocks(i, entries) ==
    IF entries = <<>> THEN [lines |-> <<>>, warns |-> <<>>]
    ELSE LET b    == TagBlock(i, Head(entries))
             rest == TagBlocks(i + 1, Tail(entries))
         IN [lines |-> b.lines \o rest.lines, warns |-> b.warns \o rest.warns]

\* generate_twincat_struct: the lines of the declaration and what it prints
\* (the "Generated on" timestamp line is left out)
GenerateTwincatStruct(name, entries) ==
    IF entries = <<>>
    THEN [lines |-> << Text("// No tags found to convert") >>, warns |-> <<>>]
    ELSE
      LET twincat_struct_name == ConvertToTwincatName(name)
          body == TagBlocks(0, entries)
      IN
      [ lines |->
            << Text("    {attribute 'pack_mode' := '1'}"),
               Text("    {attribute 'OPC.UA.DA' := '1'}"),
               Text("    {attribute 'OPC.UA.DA.StructuredType' := '1'}"),
               Text("    (*"),
               Text("    " \o twincat_struct_name),
               Text("    =================================================="),
               Text("    Generated from Ignition UDT: " \o name),
               [kind |-> "total", count |-> Len(entries)],
               Text("    *)"),
               [kind |-> "type", name |-> twincat_struct_name],
               Text("    STRUCT") >>
            \o body.lines
            \o << Text("    END_STRUCT"), Text("    END_TYPE") >>,
        warns |-> body.warns ]

\* generate_twincat_xml: the DUT element (its Id is a fresh uuid, left out)
GenerateTwincatXml(name, entries) ==
    LET struct_content == GenerateTwincatStruct(name, entries) IN
    [ xml   |-> [ dut_name    |-> ConvertToTwincatName(name),
                  declaration |-> struct_content.lines ],
      warns |-> struct_content.warns ]

(***************************************************************************)
(* Operations.                                                             *)
(***************************************************************************)
\* the variables of the other programs while they have not run
NamesUnused == convert_calls = <<>> /\ sanitize_calls = <<>>
ExtractUnused == big_json_data = <<>> /\ udt_groups = <<>> /\ latest_udts = <<>>
\* KEPwareToBeckhoffConverter.__init__
ConversionStatsZero ==
    [ parameters_updated |-> 0, opcItemPath_updated |-> 0, valueSource_updated |-> 0,
      opcServer_updated |-> 0, expressions_removed |-> 0, tags_skipped |-> 0 ]
RemapUnused == udt_data = <<>> /\ output_file = <<>> /\ conversion_stats = ConversionStatsZero
BatchUnused ==
    /\ json_files = <<>> /\ processed = 0
    /\ successful_conversions = <<>> /\ failed_conversions = <<>>
    /\ stats_log = <<>> /\ exit_status = <<>>

\* IgnitionToTwinCATConverter(): __init__ with no udt_mapping argument
Init ==
    /\ pc = "new"
    /\ corpus \in SUBSET CorpusNames
    /\ udt_mapping = BuildUdtMapping(corpus)
    /\ json_file = <<>>
    /\ struct_name = ""
    /\ tags = <<>>
    /\ warnings = <<>>
    /\ output = <<>>
    /\ ignition_type = <<>>
    /\ twincat_type = <<>>
    /\ NamesUnused /\ ExtractUnused /\ RemapUnused /\ BatchUnused
    /\ load_calls = <<>>

\* the body of load_ignition_json on a converter whose fields are
\* c = [struct_name, tags, warnings], f being what the path holds: the fields
\* afterwards and the value returned
LoadOutcome(f, c) ==
    IF f.kind = "json"
    THEN LET walk == ExtractTagsWithNestedStructs(
                         Get(f.content, "tags", <<>>), "",
                         [tags |-> <<>>, warnings |-> c.warnings])
         IN [ struct_name |-> Get(f.content, "name", "UnknownStruct"),
              tags        |-> walk.tags,
              warnings    |-> walk.warnings,
              \* except Exception: return False
              returned    |-> ~Raised(walk) ]
    ELSE \* FileNotFoundError or JSONDecodeError: return False
         [ struct_name |-> c.struct_name, tags |-> c.tags, warnings |-> c.warnings,
           returned    |-> FALSE ]

\* load_ignition_json(json_file_path), f being what the path holds
LoadIgnitionJson(f) ==
    /\ json_file' = <<f>>
    /\ \E r \in { LoadOutcome(f, [struct_name |-> struct_name, tags |-> tags,
                                   warnings |-> warnings]) } :
          /\ struct_name' = r.struct_name
          /\ tags' = r.tags
          /\ warnings' = r.warnings
          /\ pc' = IF r.returned THEN "loaded" ELSE "load_failed"
          /\ load_calls' = Append(load_calls, [file |-> f, returned |-> r.returned])
    /\ UNCHANGED <<corpus, udt_mapping, output, ignition_type, twincat_type,
                   names_vars, extract_vars, remap_vars, batch_vars>>

\* save_twincat_file(): written is whether open()/write() succeeded
SaveTwincatFile(written) ==
    /\ LET gen == GenerateTwincatXml(struct_name, tags) IN
       /\ warnings' = warnings \o gen.warns
       /\ output' = IF written THEN <<gen.xml>> ELSE output
    /\ pc' = IF written THEN "saved" ELSE "save_failed"
    /\ UNCHANGED <<corpus, udt_mapping, json_file, struct_name, tags,
                   ignition_type, twincat_type, names_vars, extract_vars, remap_vars, load_calls, batch_vars>>

\* main(): construct, load, and save when the load returned True
Load == pc = "new" /\ \E f \in JsonFiles : LoadIgnitionJson(f)
Save == pc = "loaded" /\ \E written \in BOOLEAN : SaveTwincatFile(written)

Next == Load \/ Save

Spec == Init /\ [][Next]_vars

(***************************************************************************)
(* The type mapping on its own: the loop of print_summary calls            *)
(* _map_data_type once per source type name it counted.                    *)
(***************************************************************************)
\* type names a record may carry: every key of the table and some non-keys
TypeNames ==
    DOMAIN DATA_TYPE_MAPPING
    \cup {"boolean", "BOOL", "INTEGER", "Int64", "Float Array ", "Document"}

InitTypes ==
    /\ pc = "types"
    /\ corpus = {}
    /\ udt_mapping = BuildUdtMapping(corpus)
    /\ json_file = <<>>
    /\ struct_name = ""
    /\ tags = <<>>
    /\ warnings = <<>>
    /\ output = <<>>
    /\ ignition_type = <<>>
    /\ twincat_type = <<>>
    /\ NamesUnused /\ ExtractUnused /\ RemapUnused /\ BatchUnused
    /\ load_calls = <<>>

\* twincat_type = self._map_data_type(dt)
MapDataTypeCall(dt) ==
    /\ ignition_type' = Append(ignition_type, dt)
    /\ twincat_type' = Append(twincat_type, MapDataType(dt).type)
    /\ warnings' = warnings \o MapDataType(dt).warns
    /\ UNCHANGED <<pc, corpus, udt_mapping, json_file, struct_name, tags, output,
                   names_vars, extract_vars, remap_vars, load_calls, batch_vars>>

MapTypes ==
    /\ pc = "types"
    /\ Len(ignition_type) < MaxCalls
    /\ \E dt \in TypeNames : MapDataTypeCall(dt)

NextTypes == MapTypes

SpecTypes == InitTypes /\ [][NextTypes]_vars

(***************************************************************************)
(* The converter on records with one atomic node of every type name.       *)
(***************************************************************************)
\* an atomic node whose dataType is t
TypedLeaf(t, read_only) ==
    [tagType |-> "AtomicTag", name |-> "x 1", dataType |-> t]
    @@ (IF read_only THEN [readOnly |-> TRUE] ELSE <<>>)

\* the 'tags' of such a record: the node alone or inside a folder
TypedForests ==
    UNION { { <<TypedLeaf(t, ro)>>, <<Folder("A", <<TypedLeaf(t, ro)>>)>> } :
            t \in TypeNames, ro \in BOOLEAN }

TypedFiles ==
    { [kind |-> "json", content |-> [name |-> "RW_Analog_In", tags |-> f]] :
        f \in TypedForests }

LoadTyped == pc = "new" /\ \E f \in TypedFiles : LoadIgnitionJson(f)

NextDefaults == LoadTyped \/ Save

SpecDefaults == Init /\ [][NextDefaults]_vars

(***************************************************************************)
(* One converter object used for several loads: load_ignition_json and     *)
(* save_twincat_file are public methods and may be called in any order.    *)
(***************************************************************************)
MaxLoads == 2      \* load_ignition_json calls on one converter object

\* records with a defective node among sound ones
ReuseRecords ==
    { [name |-> "RW_Analog_In", tags |-> <<TypedLeaf("Boolean", FALSE)>>],
      [name |-> "Valve_V2",
       tags |-> <<TypedLeaf("Float4", TRUE), [str |-> "x 2"], TypedLeaf("Int4", FALSE)>>],
      [name |-> "RW_Motor",
       tags |-> << [tagType |-> "AtomicTag", dataType |-> "Boolean"],
                   [tagType |-> "UdtInstance", name |-> "In 1", typeId |-> "Redwood/RW_Missing"],
                   [tagType |-> "AtomicTag", name |-> "Doc", dataType |-> "Document"],
                   TypedLeaf("Int4", FALSE) >>],
      [name |-> "RW_Pump", tags |-> << Folder("A", <<[str |-> "x 2"]>>) >>] }

ReuseFiles ==
    { [kind |-> "missing"], [kind |-> "invalid"] }
    \cup { [kind |-> "json", content |-> r] : r \in ReuseRecords }

LoadAgain ==
    /\ pc \in {"new", "loaded", "load_failed", "saved", "save_failed"}
    /\ Len(load_calls) < MaxLoads
    /\ \E f \in ReuseFiles : LoadIgnitionJson(f)

SaveAfterLoad ==
    /\ pc \in {"loaded", "load_failed"}
    /\ \E written \in BOOLEAN : SaveTwincatFile(written)

NextReuse == LoadAgain \/ SaveAfterLoad

SpecReuse == Init /\ [][NextReuse]_vars

(***************************************************************************)
(* The name transforms on their own: calls of _convert_to_twincat_name and *)
(* of the identifier sanitization, on given names or on a value an earlier *)
(* call returned.                                                          *)
(***************************************************************************)
\* record names handed to _convert_to_twincat_name
StructNameInputs ==
    { "RW_Digital_Out", "RW_Digital_Out_V2", "RW_Analog_In", "RW_A", "RW_A_V2",
      "RW_A_V2_V3", "RW_Motor_V10", "RW_Motor", "Valve", "Valve_V2", "x", "" }

\* node names handed to the identifier sanitization
NodeNameInputs ==
    { "My Tag #1", "My_Tag_1", "1abc", "a__b", "_a_", "Motor-1", "#", "",
      "é", "Tag é", "a.é.b", "x²", "ß1" }

InitNames ==
    /\ pc = "names"
    /\ corpus = {}
    /\ udt_mapping = BuildUdtMapping(corpus)
    /\ json_file = <<>>
    /\ struct_name = ""
    /\ tags = <<>>
    /\ warnings = <<>>
    /\ output = <<>>
    /\ ignition_type = <<>>
    /\ twincat_type = <<>>
    /\ NamesUnused /\ ExtractUnused /\ RemapUnused /\ BatchUnused
    /\ load_calls = <<>>

\* twincat_struct_name = self._convert_to_twincat_name(ignition_name)
ConvertToTwincatNameCall(ignition_name) ==
    /\ convert_calls' = Append(convert_calls,
                               [ ignition_name |-> ignition_name,
                                 returned      |-> ConvertToTwincatName(ignition_name) ])
    /\ UNCHANGED <<pc, corpus, udt_mapping, json_file, struct_name, tags, warnings, output,
                   ignition_type, twincat_type, sanitize_calls, extract_vars, remap_vars, load_calls, batch_vars>>

\* var_name = self._sanitize_variable_name(self._sanitize_name(name))
SanitizeIdentifierCall(name) ==
    /\ sanitize_calls' = Append(sanitize_calls,
                                [ name     |-> name,
                                  returned |-> SanitizeIdentifier(name) ])
    /\ UNCHANGED <<pc, corpus, udt_mapping, json_file, struct_name, tags, warnings, output,
                   ignition_type, twincat_type, convert_calls, extract_vars, remap_vars, load_calls, batch_vars>>

ConvertNames ==
    /\ pc = "names"
    /\ Len(convert_calls) + Len(sanitize_calls) < MaxCalls
    /\ \E n \in StructNameInputs \cup {convert_calls[i].returned : i \in DOMAIN convert_calls} :
          ConvertToTwincatNameCall(n)

SanitizeNames ==
    /\ pc = "names"
    /\ Len(convert_calls) + Len(sanitize_calls) < MaxCalls
    /\ \E n \in NodeNameInputs \cup {sanitize_calls[i].returned : i \in DOMAIN sanitize_calls} :
          SanitizeIdentifierCall(n)

NextNames == ConvertNames \/ SanitizeNames

SpecNames == InitNames /\ [][NextNames]_vars

(***************************************************************************)
(* extract_udts_from_big_json.py: grouping the records of the big export   *)
(* by base name and selecting one record of each group.                    *)
(***************************************************************************)
\* sub in s
Contains(s, sub) ==
    \E k \in 1..(Len(s) + 1) :
        k + Len(sub) - 1 <= Len(s) /\ SubSeq(s, k, k + Len(sub) - 1) = sub

\* s.startswith(prefix) and s.endswith(suffix)
StartsWith(s, prefix) == Len(s) >= Len(prefix) /\ SubSeq(s, 1, Len(prefix)) = prefix
HasSuffix(s, suffix) ==
    Len(s) >= Len(suffix) /\ SubSeq(s, Len(s) - Len(suffix) + 1, Len(s)) = suffix

\* int(digits)
DigitSeq == <<"0", "1", "2", "3", "4", "5", "6", "7", "8", "9">>
DigitValue(c) == (CHOOSE i \in DOMAIN DigitSeq : DigitSeq[i] = c) - 1
RECURSIVE ParseInt(_)
ParseInt(ds) ==
    IF Len(ds) = 0 THEN 0
    ELSE ParseInt(SubSeq(ds, 1, Len(ds) - 1)) * 10 + DigitValue(CharAt(ds, Len(ds)))

\* the match of r'_v(\d+)$' in a lower-cased name: <<>> when there is none,
\* else <<group(1)>>
VersionMatch(name_lower) ==
    LET d == TrailingDigits(name_lower)
        k == Len(name_lower) - d
    IN
    IF d >= 1 /\ k >= 2 /\ SubSeq(name_lower, k - 1, k) = "_v"
    THEN <<SubSeq(name_lower, k + 1, Len(name_lower))>> ELSE <<>>

\* variant of get_version_priority: the version number is not read, every
\* numbered version gets the same priority
GetVersionPriorityFlat(udt_name) ==
    LET name_lower == Lower(udt_name) IN
    IF Contains(name_lower, "test") THEN 0
    ELSE IF VersionMatch(name_lower) # <<>> THEN 1000
    ELSE IF HasSuffix(name_lower, "_new") THEN 100
    ELSE IF HasSuffix(name_lower, "_reverse") THEN 90
    ELSE IF HasSuffix(name_lower, "_hybrid") THEN 80
    ELSE 50

\* get_version_priority
GetVersionPriority(udt_name) ==
    LET name_lower == Lower(udt_name)
        v_match    == VersionMatch(name_lower)
    IN
    IF Contains(name_lower, "test") THEN 0
    ELSE IF v_match # <<>> THEN 1000 + ParseInt(v_match[1])
    ELSE IF HasSuffix(name_lower, "_new") THEN 100
    ELSE IF HasSuffix(name_lower, "_reverse") THEN 90
    ELSE IF HasSuffix(name_lower, "_hybrid") THEN 80
    ELSE 50

\* re.sub(suffix + '$', '', s, flags=re.IGNORECASE) for a literal suffix
\* (the bound v holds the value of s, evaluated once)
StripSuffixIgnoreCase(s, suffix) ==
    CHOOSE r \in { IF \E l \in {Lower(v)} : HasSuffix(l, Lower(suffix))
                   THEN SubSeq(v, 1, Len(v) - Len(suffix)) ELSE v : v \in {s} } : TRUE

\* re.sub(r'_Hybrid\s+TEST$', '', s, flags=re.IGNORECASE); the white space
\* of the names is the blank
RECURSIVE TrailingBlanks(_)
TrailingBlanks(s) ==
    IF Len(s) > 0 /\ CharAt(s, Len(s)) = " "
    THEN TrailingBlanks(SubSeq(s, 1, Len(s) - 1)) + 1 ELSE 0
StripHybridSpaceTest(s) ==
    CHOOSE r \in {
        IF ~(\E l \in {Lower(v)} : HasSuffix(l, "test")) THEN v
        ELSE LET front == SubSeq(v, 1, Len(v) - 4)
                 b     == TrailingBlanks(front)
                 head  == SubSeq(front, 1, Len(front) - b)
             IN IF b >= 1 /\ (\E l \in {Lower(head)} : HasSuffix(l, "_hybrid"))
                THEN SubSeq(head, 1, Len(head) - 7) ELSE v
        : v \in {s} } : TRUE

\* re.sub(r'_V\d+$', '', s, flags=re.IGNORECASE)
StripVersionSuffixIgnoreCase(s) ==
    CHOOSE r \in { IF m # <<>> THEN SubSeq(v, 1, Len(v) - Len(m[1]) - 2) ELSE v
                   : v \in {s}, m \in {VersionMatch(Lower(s))} } : TRUE

\* get_base_name: the patterns are applied one after the other, each once
GetBaseName(udt_name) ==
    LET p1 == StripHybridSpaceTest(udt_name)
        p2 == StripSuffixIgnoreCase(p1, "_Hybrid_TEST")
        p3 == StripSuffixIgnoreCase(p2, "_Hybrid_New")
        p4 == StripSuffixIgnoreCase(p3, "_Hybrid_Reverse")
        p5 == StripVersionSuffixIgnoreCase(p4)
        p6 == StripSuffixIgnoreCase(p5, "_TEST")
        p7 == StripSuffixIgnoreCase(p6, "_New")
        p8 == StripSuffixIgnoreCase(p7, "_Reverse")
    IN StripSuffixIgnoreCase(p8, "_Hybrid")

\* the order of str: characters compare by code point, strings
\* lexicographically
CodePoints == <<" ">> \o DigitSeq \o UpperLetters \o <<"_">> \o LowerLetters
Ord(c) == CHOOSE i \in DOMAIN CodePoints : CodePoints[i] = c
RECURSIVE StrLess(_, _)
StrLess(a, b) ==
    IF Len(b) = 0 THEN FALSE
    ELSE IF Len(a) = 0 THEN TRUE
    ELSE IF CharAt(a, 1) = CharAt(b, 1) THEN StrLess(Tail(a), Tail(b))
    ELSE Ord(CharAt(a, 1)) < Ord(CharAt(b, 1))

\* (x['priority'], x['name']) < (y['priority'], y['name'])
KeyLess(x, y) ==
    x.priority < y.priority \/ (x.priority = y.priority /\ StrLess(x.name, y.name))

\* max(udts, key=lambda x: (x['priority'], x['name'])): the first entry with
\* the greatest key
RECURSIVE MaxFrom(_, _)
MaxFrom(udts, best) ==
    IF udts = <<>> THEN best
    ELSE MaxFrom(Tail(udts), IF KeyLess(best, Head(udts)) THEN Head(udts) ELSE best)
MaxEntry(udts) == MaxFrom(Tail(udts), Head(udts))

\* variant of the grouping: records are grouped by their full name
GroupKeyIsName(udt_name) == udt_name

\* the key of udt_groups a record is appended under
GroupKey(udt_name) == GetBaseName(udt_name)

\* udt_name.startswith('RW_')
HasRequiredPrefix(udt_name) == StartsWith(udt_name, "RW_")

\* the body of the loop over tags: one record of the export is skipped or
\* appended to the list of its group.  (A bound variable holds a value that is
\* computed once: base_name \in {e} stands for base_name = e.)
GroupStep(groups, udt) ==
    IF "name" \notin DOMAIN udt THEN groups
    ELSE IF ~HasRequiredPrefix(udt.name) THEN groups
    ELSE CHOOSE next \in
           { IF base_name \in DOMAIN groups
             THEN [groups EXCEPT ![base_name] = Append(@, entry)]
             ELSE groups @@ (base_name :> <<entry>>)
             : base_name \in {GroupKey(udt.name)},
               entry \in {[ name     |-> udt.name,
                            priority |-> GetVersionPriority(udt.name),
                            data     |-> udt ]} } : TRUE

\* the loop over tags that fills udt_groups
RECURSIVE GroupUdts(_, _)
GroupUdts(tags_list, groups) ==
    IF tags_list = <<>> THEN groups
    ELSE CHOOSE done \in
           { GroupUdts(Tail(tags_list), next)
             : next \in {GroupStep(groups, Head(tags_list))} } : TRUE

\* the loop over udt_groups that fills latest_udts
SelectLatest(groups) ==
    [ n \in {MaxEntry(groups[b]).name : b \in DOMAIN groups} |->
        MaxEntry(groups[CHOOSE b \in DOMAIN groups : MaxEntry(groups[b]).name = n]).data ]

\* names of the records of the big export
ExtractNames ==
    { "RW_Sensor", "RW_Sensor_V2", "RW_Sensor_V10", "RW_Sensor_TEST",
      "RW_Pump_New", "RW_Pump_Hybrid_New", "RW_Pump_hybrid", "RW_Pump_Hybrid TEST",
      "Valve_V2" }

\* the entries of its 'tags' list: records with a name, one of them in a
\* second copy with other content, and a record without a name
BigJsonRecords ==
    { [name |-> n, tagType |-> "UdtType"] : n \in ExtractNames }
    \cup { [name |-> "RW_Sensor_V10", tagType |-> "UdtType", tags |-> <<>>],
           [tagType |-> "UdtType"] }

RECURSIVE SeqsUpTo(_, _)
SeqsUpTo(S, n) ==
    IF n = 0 THEN {<<>>}
    ELSE SeqsUpTo(S, n - 1)
         \cup {Append(q, x) : q \in {r \in SeqsUpTo(S, n - 1) : Len(r) = n - 1}, x \in S}

\* what open() + json.load() of the big export can give
BigJsonFiles ==
    { [kind |-> "missing"], [kind |-> "invalid"], [kind |-> "json", content |-> [name |-> ""]] }
    \cup { [kind |-> "json", content |-> [tags |-> t]] : t \in SeqsUpTo(BigJsonRecords, MaxRecords) }

InitExtract ==
    /\ pc = "extract"
    /\ corpus = {}
    /\ udt_mapping = BuildUdtMapping(corpus)
    /\ json_file = <<>>
    /\ struct_name = ""
    /\ tags = <<>>
    /\ warnings = <<>>
    /\ output = <<>>
    /\ ignition_type = <<>>
    /\ twincat_type = <<>>
    /\ NamesUnused /\ ExtractUnused /\ RemapUnused /\ BatchUnused
    /\ load_calls = <<>>

\* extract_udts_from_big_json(), f being what the big export file holds; each
\* selected record is then written to <name>.json and listed in the report
ExtractUdtsFromBigJson(f) ==
    /\ big_json_data' = <<f>>
    /\ IF f.kind = "json" /\ "tags" \in DOMAIN f.content
       THEN \E groups \in {GroupUdts(f.content.tags, <<>>)} :
                /\ udt_groups' = groups
                /\ latest_udts' = SelectLatest(groups)
       ELSE \* file not found, JSON error or no 'tags' key: return
            UNCHANGED <<udt_groups, latest_udts>>
    /\ pc' = "extracted"
    /\ UNCHANGED <<corpus, udt_mapping, json_file, struct_name, tags, warnings, output,
                   ignition_type, twincat_type, names_vars, remap_vars, load_calls, batch_vars>>

Extract == pc = "extract" /\ \E f \in BigJsonFiles : ExtractUdtsFromBigJson(f)

NextExtract == Extract

SpecExtract == InitExtract /\ [][NextExtract]_vars

(***************************************************************************)
(* The extraction on an export whose record names stack revision markers   *)
(* or hold the letters "test" in their base name.                          *)
(***************************************************************************)
StackedNames ==
    { "RW_Latest", "RW_Latest_V2", "RW_Latest_V10",
      "RW_X", "RW_X_V2", "RW_X_V3", "RW_X_V2_TEST", "RW_X_TEST_V2" }

StackedRecords == { [name |-> n, tagType |-> "UdtType"] : n \in StackedNames }

StackedFiles ==
    { [kind |-> "json", content |-> [tags |-> t]] : t \in SeqsUpTo(StackedRecords, MaxRecords) }

ExtractStacked == pc = "extract" /\ \E f \in StackedFiles : ExtractUdtsFromBigJson(f)

NextStacked == ExtractStacked

SpecStacked == InitExtract /\ [][NextStacked]_vars

(***************************************************************************)
(* convert_kepware_to_beckhoff.py: the KEPware -> Beckhoff remap of one    *)
(* record.  A JSON string in a field that may also hold an object          *)
(* (opcItemPath, opcServer) is the record [str |-> s]; an object is the    *)
(* record of its keys.                                                     *)
(***************************************************************************)
\* isinstance(v, str) and isinstance(v, dict) for the value of such a field
IsStr(v) == "str" \in DOMAIN v
IsDict(v) == "str" \notin DOMAIN v

\* del d[key]
Del(d, key) == [k \in DOMAIN d \ {key} |-> d[k]]

\* d[key] = value
Put(d, key, value) == [k \in DOMAIN d \cup {key} |-> IF k = key THEN value ELSE d[k]]

\* the parameters _convert_parameters injects
OPCTagPathParameter ==
    [dataType |-> "String", value |-> "nsu=urn:BeckhoffAutomation:Ua:PLC1;s=MAIN.YourTagNameHere"]
OPCServerParameter ==
    [dataType |-> "String", value |-> "Beckhoff@YourComputerName"]

kepware_params == {"Node", "TIA_PLC_Name", "Datablock_Name"}

\* _convert_parameters: st is the pair (udt_data, conversion_stats)
ConvertParameters(st) ==
    IF "parameters" \notin DOMAIN st.udt THEN st
    ELSE
      LET parameters == st.udt.parameters
          kept == DOMAIN parameters \ kepware_params
          new_parameters ==
            [ param_name \in {"OPCTagPath", "OPCServer"} \cup kept |->
                IF param_name \in kept THEN parameters[param_name]
                ELSE IF param_name = "OPCTagPath" THEN OPCTagPathParameter
                ELSE OPCServerParameter ]
      IN [ udt   |-> [st.udt EXCEPT !.parameters = new_parameters],
           stats |-> [st.stats EXCEPT !.parameters_updated = @ + 1] ]

\* variant of _should_convert_tag: any node with an opcItemPath converts,
\* memory nodes included
ShouldConvertTagByPath(tag) ==
    Get(tag, "valueSource", "") = "opc" \/ "opcItemPath" \in DOMAIN tag

\* _should_convert_tag
ShouldConvertTag(tag) ==
    LET value_source == Get(tag, "valueSource", "")
        has_opc_item_path == "opcItemPath" \in DOMAIN tag
    IN
    IF value_source = "opc" THEN TRUE
    ELSE IF value_source = "expr" THEN has_opc_item_path
    ELSE IF value_source = "memory" THEN FALSE
    ELSE has_opc_item_path

\* binding.split('.')[-1]
RECURSIVE LastPart(_)
LastPart(binding) ==
    IF Len(binding) = 0 \/ CharAt(binding, Len(binding)) = "." THEN ""
    ELSE LastPart(SubSeq(binding, 1, Len(binding) - 1)) \o CharAt(binding, Len(binding))

\* the position of the first c in s, 0 when there is none
RECURSIVE Find(_, _)
Find(s, c) ==
    IF Len(s) = 0 THEN 0
    ELSE IF CharAt(s, 1) = c THEN 1
    ELSE IF Find(Tail(s), c) = 0 THEN 0 ELSE Find(Tail(s), c) + 1

\* variant of the placeholder removal: the pattern is greedy, \{.*\}
RECURSIVE FindLast(_, _)
FindLast(s, c) ==
    IF Len(s) = 0 THEN 0
    ELSE IF CharAt(s, Len(s)) = c THEN Len(s)
    ELSE FindLast(SubSeq(s, 1, Len(s) - 1), c)
RECURSIVE RemovePlaceholdersGreedy(_)
RemovePlaceholdersGreedy(s) ==
    IF Len(s) = 0 THEN ""
    ELSE IF CharAt(s, 1) = "{" /\ FindLast(Tail(s), "}") > 0
         THEN RemovePlaceholdersGreedy(SubSeq(s, FindLast(Tail(s), "}") + 2, Len(s)))
         ELSE CharAt(s, 1) \o RemovePlaceholdersGreedy(Tail(s))

\* re.sub(r'\{.*?\}', '', s): from the left, each "{" with a "}" after it is
\* removed together with everything up to the first such "}"
RECURSIVE RemovePlaceholders(_)
RemovePlaceholders(s) ==
    IF Len(s) = 0 THEN ""
    ELSE IF CharAt(s, 1) = "{" /\ Find(Tail(s), "}") > 0
         THEN RemovePlaceholders(SubSeq(s, Find(Tail(s), "}") + 2, Len(s)))
         ELSE CharAt(s, 1) \o RemovePlaceholders(Tail(s))

\* tag.get('name', f'Tag_{i}')
TagNameAt(tag, i) == Get(tag, "name", "Tag_" \o DigitSeq[i + 1])

\* _convert_opc_item_path: st is the pair (tag, conversion_stats)
ConvertOpcItemPath(st, tag_name) ==
    LET opc_item_path == st.tag.opcItemPath IN
    IF ~(IsDict(opc_item_path) /\ "binding" \in DOMAIN opc_item_path) THEN st
    ELSE IF ~(Contains(opc_item_path.binding, "KEPServerEX")
              \/ Contains(opc_item_path.binding, "{Node}")) THEN st
    ELSE
      CHOOSE r \in
        { [ tag   |-> [st.tag EXCEPT !.opcItemPath.binding =
                         "{OPCTagPath}.hmiIgnition."
                         \o (IF tag_suffix # "" THEN tag_suffix ELSE tag_name)],
            stats |-> [st.stats EXCEPT !.opcItemPath_updated = @ + 1] ]
          : tag_suffix \in {RemovePlaceholders(LastPart(opc_item_path.binding))} } : TRUE

\* variant of _convert_boolean_tag: the value source is switched and the
\* expression is left in the node
ConvertBooleanTagKeepingExpression(st) ==
    IF Get(st.tag, "valueSource", "") = "expr" /\ "expression" \in DOMAIN st.tag
       /\ Contains(st.tag.expression, "&") /\ Contains(st.tag.expression, "{[.]S_HMISts}")
    THEN [ tag   |-> Put(st.tag, "valueSource", "opc"),
           stats |-> [st.stats EXCEPT !.valueSource_updated = @ + 1] ]
    ELSE st

\* _convert_boolean_tag
ConvertBooleanTag(st) ==
    IF Get(st.tag, "valueSource", "") = "expr" /\ "expression" \in DOMAIN st.tag
       /\ Contains(st.tag.expression, "&") /\ Contains(st.tag.expression, "{[.]S_HMISts}")
    THEN [ tag   |-> Del(Put(st.tag, "valueSource", "opc"), "expression"),
           stats |-> [st.stats EXCEPT !.valueSource_updated = @ + 1,
                                      !.expressions_removed = @ + 1] ]
    ELSE st

\* _convert_opc_server
ConvertOpcServer(st) ==
    IF IsStr(st.tag.opcServer)
    THEN [ tag   |-> [st.tag EXCEPT !.opcServer =
                         [bindType |-> "parameter", binding |-> "{OPCServer}"]],
           stats |-> [st.stats EXCEPT !.opcServer_updated = @ + 1] ]
    ELSE st

\* the three steps of the loop body of _convert_tags for a tag that converts
OpcItemPathStep(st, tag_name) ==
    IF "opcItemPath" \in DOMAIN st.tag THEN ConvertOpcItemPath(st, tag_name) ELSE st
BooleanStep(st) ==
    IF Get(st.tag, "dataType", "") = "Boolean" /\ "expression" \in DOMAIN st.tag
    THEN ConvertBooleanTag(st) ELSE st
OpcServerStep(st) ==
    IF "opcServer" \in DOMAIN st.tag /\ IsStr(st.tag.opcServer)
    THEN ConvertOpcServer(st) ELSE st

\* the loop body of _convert_tags for tag number i (from 0)
ConvertTag(tag, i, stats) ==
    IF ShouldConvertTag(tag)
    THEN CHOOSE s3 \in
           { OpcServerStep(s2)
             : s2 \in { BooleanStep(s1)
                        : s1 \in { OpcItemPathStep([tag |-> tag, stats |-> stats],
                                                   TagNameAt(tag, i)) } } } : TRUE
    ELSE [ tag |-> tag, stats |-> [stats EXCEPT !.tags_skipped = @ + 1] ]

\* _convert_tags: the loop over the list it is given, from tag number i on;
\* done is the pair (tags converted so far, conversion_stats)
RECURSIVE ConvertTags(_, _, _)
ConvertTags(tags_list, i, done) ==
    IF i >= Len(tags_list) THEN done
    ELSE CHOOSE next \in
           { ConvertTags(tags_list, i + 1,
                 [tags |-> Append(done.tags, one.tag), stats |-> one.stats])
             : one \in {ConvertTag(tags_list[i + 1], i, done.stats)} } : TRUE

\* the body of convert_udt between json.load and json.dump
ConvertUdtData(data, stats) ==
    CHOOSE r \in
      { IF "tags" \in DOMAIN p.udt
        THEN CHOOSE q \in
               { [udt |-> [p.udt EXCEPT !.tags = t.tags], stats |-> t.stats]
                 : t \in {ConvertTags(p.udt.tags, 0, [tags |-> <<>>, stats |-> p.stats])} } : TRUE
        ELSE p
        : p \in {ConvertParameters([udt |-> data, stats |-> stats])} } : TRUE

\* the opcItemPath most nodes of the input universe carry
KepwareItemPath ==
    [bindType |-> "parameter", binding |-> "ns=2;s={Node}.{Datablock_Name}.Cmd"]

\* a Boolean node with a bit-extraction expression and a literal opcServer;
\* value_source is <<>> for a node without valueSource
FullNode(value_source, has_opc_item_path) ==
    [ name |-> "Cmd", tagType |-> "AtomicTag", dataType |-> "Boolean",
      expression |-> "{[.]S_HMISts} & 4", opcServer |-> [str |-> "KEPServerEX"] ]
    @@ (IF value_source = <<>> THEN <<>> ELSE [valueSource |-> value_source[1]])
    @@ (IF has_opc_item_path THEN [opcItemPath |-> KepwareItemPath] ELSE <<>>)

\* atomic nodes of a record that is remapped
RemapLeaves ==
    { FullNode(vs, has) : vs \in {<<>>, <<"opc">>, <<"expr">>, <<"memory">>, <<"derived">>},
                          has \in BOOLEAN }
    \cup
    { [ name |-> "Speed", valueSource |-> "opc", dataType |-> "Float4",
        opcItemPath |-> [binding |-> "[KEPServerEX]Ch1.Dev1.{TagName}"],
        opcServer |-> [bindType |-> "parameter", binding |-> "{Srv}"] ],
      [ name |-> "Pos", valueSource |-> "opc", dataType |-> "Int4",
        opcItemPath |-> [binding |-> "ns=2;s={Node}.{A}x{B}"] ],
      [ name |-> "Run", valueSource |-> "opc", dataType |-> "Boolean",
        opcItemPath |-> [binding |-> "ns=2;s=Line1.Run"] ],
      [ name |-> "Raw", valueSource |-> "opc", dataType |-> "Int4",
        opcItemPath |-> [str |-> "KEPServerEX.Raw"] ],
      [ valueSource |-> "opc", dataType |-> "Int4",
        opcItemPath |-> [binding |-> "ns=2;s={Node}."] ],
      [ name |-> "High", valueSource |-> "expr", dataType |-> "Boolean",
        expression |-> "{[.]Speed} > 4", opcItemPath |-> KepwareItemPath ],
      [ name |-> "Bits", valueSource |-> "expr", dataType |-> "Int4",
        expression |-> "{[.]S_HMISts} & 4", opcItemPath |-> KepwareItemPath ] }

\* its nodes: the atomic nodes, and folders holding a node that would convert
RemapNodes ==
    RemapLeaves
    \cup { Folder("Cmds", <<FullNode(<<"expr">>, TRUE)>>),
           Folder("Area", <<Folder("Cmds", <<FullNode(<<"opc">>, TRUE)>>)>>) }

\* the 'parameters' of the record, <<>> standing for a record without the key
RemapParameters ==
    { <<>>,
      << [ Node |-> [dataType |-> "String", value |-> "PLC1"],
           Datablock_Name |-> [dataType |-> "String", value |-> "DB1"],
           Gain |-> [dataType |-> "Float4", value |-> "2.5"] ] >>,
      << [ TIA_PLC_Name |-> [dataType |-> "String", value |-> "S7"],
           OPCTagPath |-> [dataType |-> "String", value |-> "ns=4;s=MAIN.Pump1"] ] >> }

\* what open() + json.load() of the input file can give
RemapFiles ==
    { [kind |-> "missing"], [kind |-> "invalid"] }
    \cup { [kind |-> "json",
            content |-> [name |-> "RW_Digital_Out_V2", tags |-> t]
                        @@ (IF ps = <<>> THEN <<>> ELSE [parameters |-> ps[1]])]
           : t \in SeqsUpTo(RemapNodes, MaxTags), ps \in RemapParameters }
    \cup { [kind |-> "json",
            content |-> [name |-> "RW_Digital_Out_V2", parameters |-> ps[1]]]
           : ps \in RemapParameters \ {<<>>} }

\* KEPwareToBeckhoffConverter()
InitRemap ==
    /\ pc = "remap"
    /\ corpus = {}
    /\ udt_mapping = BuildUdtMapping(corpus)
    /\ json_file = <<>>
    /\ struct_name = ""
    /\ tags = <<>>
    /\ warnings = <<>>
    /\ output = <<>>
    /\ ignition_type = <<>>
    /\ twincat_type = <<>>
    /\ NamesUnused /\ ExtractUnused /\ RemapUnused /\ BatchUnused
    /\ load_calls = <<>>

\* convert_udt(input_file, output_file): f is what the input file holds (kept
\* in udt_data as loaded), written is whether the output file could be written
ConvertUdt(f, written) ==
    /\ udt_data' = <<f>>
    /\ IF f.kind = "json"
       THEN \E r \in {ConvertUdtData(f.content, conversion_stats)} :
                /\ conversion_stats' = r.stats
                /\ output_file' = IF written THEN <<r.udt>> ELSE output_file
                /\ pc' = IF written THEN "converted" ELSE "convert_failed"
       ELSE \* the exception of open() or json.load(): return False
            /\ pc' = "convert_failed"
            /\ UNCHANGED <<conversion_stats, output_file>>
    /\ UNCHANGED <<corpus, udt_mapping, json_file, struct_name, tags, warnings, output,
                   ignition_type, twincat_type, names_vars, extract_vars, load_calls, batch_vars>>

Convert == pc = "remap" /\ \E f \in RemapFiles, written \in BOOLEAN : ConvertUdt(f, written)

NextRemap == Convert

SpecRemap == InitRemap /\ [][NextRemap]_vars

\* ---- convert_udt run on a file that convert_udt wrote ----

\* a node whose name carries a vendor marker and a dot, and whose binding
\* leaves nothing after its placeholders are removed
MarkerNamedNode ==
    [ name |-> "KEPServerEX.Sts", valueSource |-> "opc", dataType |-> "Int4",
      opcItemPath |-> [bindType |-> "parameter", binding |-> "ns=2;s={Node}.{TagName}"] ]

\* the input files of the first run
ReconvertFiles ==
    RemapFiles
    \cup { [kind |-> "json",
            content |-> [name |-> "RW_Status", tags |-> <<MarkerNamedNode>>]
                        @@ (IF ps = <<>> THEN <<>> ELSE [parameters |-> ps[1]])]
           : ps \in RemapParameters }

ConvertFirst ==
    pc = "remap" /\ \E f \in ReconvertFiles, written \in BOOLEAN : ConvertUdt(f, written)

\* main() started again with the written file as its input: a new converter,
\* json.load() gives back what json.dump() wrote
ConvertAgain ==
    /\ pc = "converted"
    /\ \E written \in BOOLEAN :
       \E r \in {ConvertUdtData(output_file[1], ConversionStatsZero)} :
           /\ udt_data' = <<[kind |-> "json", content |-> output_file[1]]>>
           /\ conversion_stats' = r.stats
           /\ output_file' = IF written THEN <<r.udt>> ELSE output_file
           /\ pc' = IF written THEN "reconverted" ELSE "reconvert_failed"
    /\ UNCHANGED <<corpus, udt_mapping, json_file, struct_name, tags, warnings, output,
                   ignition_type, twincat_type, names_vars, extract_vars, load_calls, batch_vars>>

NextReconvert == ConvertFirst \/ ConvertAgain

SpecReconvert == InitRemap /\ [][NextReconvert]_vars

(***************************************************************************)
(* The two batch programs: src/batch_convert_udts.py (struct batch) and    *)
(* src/Ignition-RW-Standard-BeckhoffConverted/batch_convert_udts.py (remap *)
(* batch).  A file of the source directory is named by its position in the *)
(* glob order.  The --unified bundle of the remap batch is left out.       *)
(***************************************************************************)
MaxFiles == 2      \* *.json files in the source directory of a batch

\* what a *.json file handed to the struct batch can hold
StructBatchFiles ==
    { [kind |-> "invalid"],
      [kind |-> "json", content |-> [name |-> "RW_Analog_In",
           tags |-> <<TypedLeaf("Boolean", FALSE)>>]],
      [kind |-> "json", content |-> [name |-> "Valve_V2",
           tags |-> <<TypedLeaf("Float4", TRUE), [str |-> "x 2"]>>]] }

\* what a *.json file handed to the remap batch can hold
RemapBatchFiles ==
    { [kind |-> "invalid"],
      [kind |-> "json", content |-> [name |-> "RW_Digital_Out_V2",
           tags |-> <<FullNode(<<"expr">>, TRUE)>>,
           parameters |-> [Node |-> [dataType |-> "String", value |-> "PLC1"]]]],
      [kind |-> "json", content |-> [name |-> "RW_Motor",
           tags |-> <<FullNode(<<"memory">>, FALSE)>>]] }

\* the source directory: missing, or its *.json files in glob order
Directories(files) ==
    { [exists |-> FALSE] } \cup { [exists |-> TRUE, files |-> l] : l \in SeqsUpTo(files, MaxFiles) }

InitBatch ==
    /\ pc \in {"struct_batch", "remap_batch"}
    /\ corpus \in SUBSET CorpusNames
    /\ udt_mapping = BuildUdtMapping(corpus)
    /\ json_file = <<>>
    /\ struct_name = ""
    /\ tags = <<>>
    /\ warnings = <<>>
    /\ output = <<>>
    /\ ignition_type = <<>>
    /\ twincat_type = <<>>
    /\ NamesUnused /\ ExtractUnused /\ RemapUnused /\ BatchUnused
    /\ load_calls = <<>>

\* main() of the struct batch: sys.exit(0) if failed_count == 0, else sys.exit(1)
StructExitStatus(failed_count) == IF failed_count = 0 THEN 0 ELSE 1

\* struct batch, main() up to the loop of batch_convert_udts: a missing source
\* directory returns (0, 1) and main exits 1; an empty one returns None, the
\* unpacking in main raises TypeError and the except clause exits 1
StructBatchStart(dir) ==
    /\ IF dir.exists /\ dir.files # <<>>
       THEN /\ json_files' = dir.files
            /\ pc' = "struct_loop"
            /\ UNCHANGED exit_status
       ELSE /\ exit_status' = <<IF dir.exists THEN 1 ELSE StructExitStatus(1)>>
            /\ pc' = "struct_exited"
            /\ UNCHANGED json_files
    /\ UNCHANGED <<corpus, udt_mapping, json_file, struct_name, tags, warnings, output,
                   ignition_type, twincat_type, names_vars, extract_vars, remap_vars,
                   load_calls, processed, successful_conversions, failed_conversions,
                   stats_log>>

\* failed_conversions.append((json_file.name, "Failed to load JSON file"))
RecordLoadFailure(failed, file_name) ==
    Append(failed, [file |-> file_name, reason |-> "Failed to load JSON file"])

\* one iteration of the loop of batch_convert_udts: a new converter, load, save.
\* save is what save_twincat_file does: "written", "write_failed" (it returns
\* False) or "raised" (an exception leaves it, caught by the loop)
StructBatchFile(save) ==
    \E file_name \in {processed + 1} :
    \E r \in { LoadOutcome(json_files[file_name],
                           [struct_name |-> "", tags |-> <<>>, warnings |-> warnings]) } :
        /\ json_file' = <<json_files[file_name]>>
        /\ load_calls' = <<[file |-> json_files[file_name], returned |-> r.returned]>>
        /\ struct_name' = r.struct_name
        /\ tags' = r.tags
        /\ IF r.returned
           THEN \E gen \in { GenerateTwincatXml(r.struct_name, r.tags) } :
                  /\ warnings' = IF save = "raised" THEN r.warnings ELSE r.warnings \o gen.warns
                  /\ output' = IF save = "written" THEN <<gen.xml>> ELSE output
                  /\ successful_conversions' =
                         IF save = "written" THEN Append(successful_conversions, file_name)
                         ELSE successful_conversions
                  /\ failed_conversions' =
                         IF save = "written" THEN failed_conversions
                         ELSE IF save = "write_failed"
                         THEN Append(failed_conversions,
                                  [file |-> file_name, reason |-> "Failed to save TwinCAT file"])
                         ELSE Append(failed_conversions,
                                  [file |-> file_name, reason |-> "str(e)"])
           ELSE /\ warnings' = r.warnings
                /\ failed_conversions' = RecordLoadFailure(failed_conversions, file_name)
                /\ UNCHANGED <<output, successful_conversions>>
        /\ processed' = processed + 1
        /\ UNCHANGED <<pc, corpus, udt_mapping, ignition_type, twincat_type,
                       names_vars, extract_vars, remap_vars, json_files, stats_log,
                       exit_status>>

\* the summary of batch_convert_udts, its return and the exit of main()
StructBatchExit ==
    /\ exit_status' = <<StructExitStatus(Len(failed_conversions))>>
    /\ pc' = "struct_exited"
    /\ UNCHANGED <<corpus, udt_mapping, json_file, struct_name, tags, warnings, output,
                   ignition_type, twincat_type, names_vars, extract_vars, remap_vars,
                   load_calls, json_files, processed, successful_conversions,
                   failed_conversions, stats_log>>

\* remap batch, main() up to the loop of batch_convert: a missing or empty
\* source directory returns at once and the process ends with status 0;
\* otherwise one converter is built for the whole loop
RemapBatchStart(dir) ==
    /\ IF dir.exists /\ dir.files # <<>>
       THEN /\ json_files' = dir.files
            /\ conversion_stats' = ConversionStatsZero
            /\ successful_conversions' = 0
            /\ failed_conversions' = 0
            /\ pc' = "remap_loop"
            /\ UNCHANGED exit_status
       ELSE /\ exit_status' = <<0>>
            /\ pc' = "remap_exited"
            /\ UNCHANGED <<json_files, conversion_stats, successful_conversions,
                           failed_conversions>>
    /\ UNCHANGED <<corpus, udt_mapping, json_file, struct_name, tags, warnings, output,
                   ignition_type, twincat_type, names_vars, extract_vars,
                   udt_data, output_file, load_calls, processed, stats_log>>

\* one iteration of the loop of batch_convert: converter.convert_udt on the
\* next file; written is whether the output file could be written.  The
\* counters are printed by convert_udt after the file is written.
RemapBatchFile(written) ==
    \E f \in { json_files[processed + 1] } :
        /\ udt_data' = <<f>>
        /\ IF f.kind = "json"
           THEN \E r \in { ConvertUdtData(f.content, conversion_stats) } :
                    /\ conversion_stats' = r.stats
                    /\ output_file' = IF written THEN <<r.udt>> ELSE output_file
                    /\ stats_log' = IF written
                                    THEN Append(stats_log, [file |-> processed + 1,
                                                            stats |-> r.stats])
                                    ELSE stats_log
                    /\ successful_conversions' =
                           IF written THEN successful_conversions + 1
                           ELSE successful_conversions
                    /\ failed_conversions' =
                           IF written THEN failed_conversions ELSE failed_conversions + 1
           ELSE /\ failed_conversions' = failed_conversions + 1
                /\ UNCHANGED <<conversion_stats, output_file, stats_log,
                               successful_conversions>>
        /\ processed' = processed + 1
        /\ UNCHANGED <<pc, corpus, udt_mapping, json_file, struct_name, tags, warnings,
                       output, ignition_type, twincat_type, names_vars, extract_vars,
                       load_calls, json_files, exit_status>>

\* the summary of batch_convert and the end of main(): no sys.exit is called,
\* the process ends with status 0
RemapBatchExit ==
    /\ exit_status' = <<0>>
    /\ pc' = "remap_exited"
    /\ UNCHANGED <<corpus, udt_mapping, json_file, struct_name, tags, warnings, output,
                   ignition_type, twincat_type, names_vars, extract_vars, remap_vars,
                   load_calls, json_files, processed, successful_conversions,
                   failed_conversions, stats_log>>

StructStart == pc = "struct_batch" /\ \E dir \in Directories(StructBatchFiles) : StructBatchStart(dir)
StructFile ==
    /\ pc = "struct_loop" /\ processed < Len(json_files)
    /\ \E save \in {"written", "write_failed", "raised"} : StructBatchFile(save)
StructExit == pc = "struct_loop" /\ processed = Len(json_files) /\ StructBatchExit
RemapStart == pc = "remap_batch" /\ \E dir \in Directories(RemapBatchFiles) : RemapBatchStart(dir)
RemapFile ==
    /\ pc = "remap_loop" /\ processed < Len(json_files)
    /\ \E written \in BOOLEAN : RemapBatchFile(written)
RemapExit == pc = "remap_loop" /\ processed = Len(json_files) /\ RemapBatchExit

NextBatch == StructStart \/ StructFile \/ StructExit \/ RemapStart \/ RemapFile \/ RemapExit

SpecBatch == InitBatch /\ [][NextBatch]_vars

(***************************************************************************)
(* Vocabulary of the properties: positions in the input tree.              *)
(***************************************************************************)
\* the node list of the file the converter loaded
InputTags == Get(json_file[1].content, "tags", <<>>)
Loaded == pc \in {"loaded", "saved", "save_failed"}

IsFolder(node) == Get(node, "tagType", "") = "Folder"
IsUdtInstance(node) == Get(node, "tagType", "") = "UdtInstance"
\* a node the walk treats as an atomic tag
IsAtomic(node) ==
    /\ ~IsFolder(node) /\ ~IsUdtInstance(node)
    /\ (Get(node, "tagType", "") = "AtomicTag" \/ Get(node, "dataType", "") # "")

\* the positions of all nodes of a node list: index sequences from the root
RECURSIVE PathsOf(_)
PathsOf(forest) ==
    UNION { {<<i>>} \cup (IF IsFolder(forest[i])
                          THEN {<<i>> \o p : p \in PathsOf(Get(forest[i], "tags", <<>>))}
                          ELSE {})
            : i \in 1..Len(forest) }

RECURSIVE NodeAt(_, _)
NodeAt(forest, p) ==
    IF Len(p) = 1 THEN forest[p[1]]
    ELSE NodeAt(Get(forest[p[1]], "tags", <<>>), Tail(p))

\* the sanitized names of the folders above position p, outermost first
RECURSIVE FolderNamesAbove(_, _)
FolderNamesAbove(forest, p) ==
    IF Len(p) <= 1 THEN <<>>
    ELSE <<SanitizeName(TagName(forest[p[1]]))>>
         \o FolderNamesAbove(Get(forest[p[1]], "tags", <<>>), Tail(p))

\* names joined by a separator
RECURSIVE JoinWith(_, _)
JoinWith(names, sep) ==
    IF names = <<>> THEN ""
    ELSE IF Len(names) = 1 THEN names[1]
    ELSE names[1] \o sep \o JoinWith(Tail(names), sep)

\* p comes before q in the pre-order (depth-first, left-to-right) traversal
PreOrderBefore(p, q) ==
    \/ Len(p) < Len(q) /\ SubSeq(q, 1, Len(p)) = p
    \/ \E k \in 1..Len(p) :
          /\ k <= Len(q)
          /\ SubSeq(p, 1, k - 1) = SubSeq(q, 1, k - 1)
          /\ p[k] < q[k]

RECURSIVE InPreOrder(_)
InPreOrder(S) ==
    IF S = {} THEN <<>>
    ELSE LET first == CHOOSE p \in S : \A q \in S \ {p} : PreOrderBefore(p, q)
         IN <<first>> \o InPreOrder(S \ {first})

\* a node that is emitted: an atomic node with a name and a data type, or a
\* typed instance whose type id the resolver mapping knows
Emits(node) ==
    \/ IsUdtInstance(node) /\ Get(node, "typeId", "") \in DOMAIN udt_mapping
    \/ IsAtomic(node) /\ Get(node, "name", "") # "" /\ Get(node, "dataType", "") # ""

EmittedPaths == InPreOrder({p \in PathsOf(InputTags) : Emits(NodeAt(InputTags, p))})

\* the declaration lines of the written struct, in file order
Declarations == SelectSeq(output[1].declaration, LAMBDA l : l.kind = "decl")

\* the walk's folder prefix at position p
RECURSIVE PrefixOf(_)
PrefixOf(names) ==
    IF names = <<>> THEN ""
    ELSE NewPrefix(PrefixOf(SubSeq(names, 1, Len(names) - 1)), names[Len(names)])

\* the declaration line of the single node at position p
DeclarationOf(p) ==
    GenerateTagLine(
        ExtractTagsWithNestedStructs(
            <<NodeAt(InputTags, p)>>, PrefixOf(FolderNamesAbove(InputTags, p)),
            [tags |-> <<>>, warnings |-> <<>>]).tags[1]).line

IsUnknownUdtWarning(w) == Len(w) >= 27 /\ SubSeq(w, 1, 27) = "Warning: Unknown UDT type '"
IsUnknownDataTypeWarning(w) == Len(w) >= 28 /\ SubSeq(w, 1, 28) = "Warning: Unknown data type '"

EndsWith(s, suffix) ==
    Len(s) >= Len(suffix) /\ SubSeq(s, Len(s) - Len(suffix) + 1, Len(s)) = suffix

(***************************************************************************)
(* Properties.                                                             *)
(***************************************************************************)
\* C1: for every record name n of the corpus the resolver maps "Redwood/" + n
\* to the struct name _convert_to_twincat_name gives for n, so every
\* TypedInstance declaration names a type that converting a corpus record emits.
C1_ResolverUsesStructNameTransform ==
    /\ \A n \in corpus :
          /\ ("Redwood/" \o n) \in DOMAIN udt_mapping
          /\ udt_mapping["Redwood/" \o n] = ConvertToTwincatName(n)
    /\ pc = "saved" =>
          \A i \in 1..Len(Declarations) :
              IsUdtInstance(NodeAt(InputTags, EmittedPaths[i])) =>
                  Declarations[i].twincat_type \in {ConvertToTwincatName(n) : n \in corpus}

\* C2: the declarations of the written struct are, in order, the declarations of
\* the emitted Atomic and TypedInstance nodes taken in pre-order; folders give
\* no declaration of their own.
C2_DeclarationsInPreOrder ==
    pc = "saved" =>
        /\ Len(Declarations) = Len(EmittedPaths)
        /\ \A i \in 1..Len(EmittedPaths) : Declarations[i] = DeclarationOf(EmittedPaths[i])

\* a struct was written for a folder holding an emitted node followed by an
\* emitted sibling of the folder, the two declared differently
C2_Witness ==
    /\ pc = "saved"
    /\ Len(InputTags) = 2 /\ IsFolder(InputTags[1])
    /\ Len(EmittedPaths) = 2 /\ EmittedPaths[1] = <<1, 1>> /\ EmittedPaths[2] = <<2>>
    /\ Declarations[1] # Declarations[2]

\* C3: a node inside folders is declared under its sanitized own name alone;
\* the folder prefix never becomes part of the identifier.
C3_IdentifierIsOwnName ==
    pc = "saved" =>
        \A i \in 1..Len(Declarations) :
            LET p == EmittedPaths[i] node == NodeAt(InputTags, p) IN
            (Len(p) > 1 /\ "name" \in DOMAIN node) =>
                Declarations[i].var_name = SanitizeVariableName(SanitizeName(node.name))

\* C4: whenever two entries of the record get the same declared identifier a
\* warning that is about the collision has been printed.
C4_CollisionFlagged ==
    pc = "saved" =>
        ((\E i, j \in 1..Len(Declarations) :
              i < j /\ Declarations[i].var_name = Declarations[j].var_name)
         => \E k \in 1..Len(warnings) :
              ~IsUnknownUdtWarning(warnings[k]) /\ ~IsUnknownDataTypeWarning(warnings[k]))

\* C5: no declaration has an empty identifier.
C5_IdentifierNonEmpty ==
    pc = "saved" => \A i \in 1..Len(Declarations) : Declarations[i].var_name # ""

\* C6: a node without a name key gives no entry: the entries are exactly those
\* of the named atomic nodes with a data type and the named typed instances
\* whose type id resolves.
C6_NamelessNodeDropped ==
    Loaded =>
        Len(tags) = Cardinality({p \in PathsOf(InputTags) :
                                    /\ Emits(NodeAt(InputTags, p))
                                    /\ "name" \in DOMAIN NodeAt(InputTags, p)})

\* a typed instance whose type id the resolver mapping does not know
IsUnresolved(node) ==
    IsUdtInstance(node) /\ Get(node, "typeId", "") \notin DOMAIN udt_mapping

\* the node list with every unresolved typed instance taken out
RECURSIVE WithoutUnresolved(_)
WithoutUnresolved(forest) ==
    IF forest = <<>> THEN <<>>
    ELSE LET node == Head(forest)
             rest == WithoutUnresolved(Tail(forest))
         IN IF IsUnresolved(node) THEN rest
            ELSE IF IsFolder(node)
            THEN <<[node EXCEPT !.tags = WithoutUnresolved(@)]>> \o rest
            ELSE <<node>> \o rest

UnresolvedPaths ==
    InPreOrder({p \in PathsOf(InputTags) : IsUnresolved(NodeAt(InputTags, p))})

\* C7: an unresolved TypedInstance node gives no entry and exactly one warning,
\* and the entries, the written struct and the other warnings are those of the
\* same record with the unresolved nodes taken out.
C7_UnresolvedDroppedWithOneWarning ==
    Loaded =>
        LET without == ExtractTagsWithNestedStructs(
                           WithoutUnresolved(InputTags), "",
                           [tags |-> <<>>, warnings |-> <<>>])
            gen == GenerateTwincatXml(struct_name, without.tags)
        IN
        /\ tags = without.tags
        /\ without.warnings = <<>>
        /\ SelectSeq(warnings, IsUnknownUdtWarning)
             = [ i \in 1..Len(UnresolvedPaths) |->
                   UnknownUdtWarning(Get(NodeAt(InputTags, UnresolvedPaths[i]), "typeId", ""),
                                     TagName(NodeAt(InputTags, UnresolvedPaths[i]))) ]
        /\ SelectSeq(warnings, LAMBDA w : ~IsUnknownUdtWarning(w))
             = (IF pc = "loaded" THEN <<>> ELSE gen.warns)
        /\ pc = "saved" => output = <<gen.xml>>

\* a struct was written for a record with an unresolved typed instance next to
\* a node that is declared
C7_Witness ==
    /\ pc = "saved"
    /\ Len(UnresolvedPaths) = 1
    /\ Len(Declarations) >= 1
    /\ Len(warnings) >= 1

\* C8: an atomic node nested in folders gets exactly one declaration line,
\* annotated "Folder: " with the sanitized folder names from the outermost to
\* the innermost joined by "/", and no folder gets a line.
C8_FolderPathAnnotation ==
    pc = "saved" =>
        /\ Len(Declarations) = Len(EmittedPaths)
        /\ \A i \in 1..Len(Declarations) :
              LET p == EmittedPaths[i] IN
              (Len(p) > 1 /\ IsAtomic(NodeAt(InputTags, p))) =>
                  EndsWith(Declarations[i].comment,
                           "// Folder: " \o JoinWith(FolderNamesAbove(InputTags, p), "/"))

\* C9: _map_data_type returns a value for every type name: the table's target
\* and no warning for a key of the table, the name itself and one warning for
\* any other name, names differing from a key only in case included.
C9_MapDataTypeTotal ==
    pc = "types" =>
        /\ Len(twincat_type) = Len(ignition_type)
        /\ \A i \in 1..Len(ignition_type) :
              LET t == ignition_type[i] IN
              /\ t \in DOMAIN DATA_TYPE_MAPPING => twincat_type[i] = DATA_TYPE_MAPPING[t]
              /\ t \notin DOMAIN DATA_TYPE_MAPPING => twincat_type[i] = t
              /\ t \in {"boolean", "INTEGER"} => twincat_type[i] = t
        /\ LET unknown == SelectSeq(ignition_type, LAMBDA t : t \notin DOMAIN DATA_TYPE_MAPPING)
           IN warnings = [i \in 1..Len(unknown) |-> UnknownDataTypeWarning(unknown[i])]

\* a key of the table and the same name in lower case were both mapped
C9_Witness ==
    /\ pc = "types"
    /\ ignition_type = <<"boolean", "Boolean">>
    /\ twincat_type = <<"boolean", "BOOL">>
    /\ Len(warnings) = 1

\* C10: each legacy alias maps to the target of its canonical counterpart:
\* Int4 as Integer, Int8 as Long, Float4 as Float, Float8 as Double.
C10_AliasesMatchCanonical ==
    pc = "types" =>
        \A i \in 1..Len(ignition_type) :
            /\ ignition_type[i] = "Int4" => twincat_type[i] = DATA_TYPE_MAPPING["Integer"]
            /\ ignition_type[i] = "Int8" => twincat_type[i] = DATA_TYPE_MAPPING["Long"]
            /\ ignition_type[i] = "Float4" => twincat_type[i] = DATA_TYPE_MAPPING["Float"]
            /\ ignition_type[i] = "Float8" => twincat_type[i] = DATA_TYPE_MAPPING["Double"]

(***************************************************************************)
(* Properties of the name transforms (SpecNames).                          *)
(***************************************************************************)
IsDigitString(s) == Len(s) >= 1 /\ \A i \in 1..Len(s) : CharAt(s, i) \in Digits

\* the name is some string followed by "_V" and a non-empty digit string
HasVersionSuffix(n) ==
    \E k \in 1..Len(n) :
        /\ k + 2 <= Len(n)
        /\ SubSeq(n, k, k + 1) = "_V"
        /\ IsDigitString(SubSeq(n, k + 2, Len(n)))

\* long is short followed by "_V" and a non-empty digit string
IsVersionOf(long, short) ==
    /\ Len(long) >= Len(short) + 3
    /\ SubSeq(long, 1, Len(short) + 2) = short \o "_V"
    /\ IsDigitString(SubSeq(long, Len(short) + 3, Len(long)))

\* C11: the identifier declared for any node name, non-ASCII letters and digits
\* included, has only characters of [A-Za-z0-9_], no run of two underscores, no
\* trailing underscore, and starts with a letter or an underscore.
C11_IdentifierWellFormed ==
    pc = "names" =>
        \A i \in DOMAIN sanitize_calls :
            LET r == sanitize_calls[i].returned IN
            /\ \A k \in 1..Len(r) : CharAt(r, k) \in AsciiLetters \cup Digits \cup {"_"}
            /\ \A k \in 1..Len(r) : k < Len(r) => SubSeq(r, k, k + 1) # "__"
            /\ Len(r) >= 1
            /\ CharAt(r, Len(r)) # "_"
            /\ CharAt(r, 1) \in AsciiLetters \cup {"_"}

\* C12 as stated: for every record name n and every non-empty digit string d
\* the struct name of n + "_V" + d equals the struct name of n.
C12_VersionSuffixStripped ==
    pc = "names" =>
        \A i, j \in DOMAIN convert_calls :
            IsVersionOf(convert_calls[i].ignition_name, convert_calls[j].ignition_name)
                => convert_calls[i].returned = convert_calls[j].returned

\* C12 amended: for every record name n that does not itself end in a version
\* suffix and every non-empty digit string d the struct name of n + "_V" + d
\* equals the struct name of n; one trailing suffix is stripped, not several.
C12_OneVersionSuffixStripped ==
    pc = "names" =>
        \A i, j \in DOMAIN convert_calls :
            ( /\ IsVersionOf(convert_calls[i].ignition_name, convert_calls[j].ignition_name)
              /\ ~HasVersionSuffix(convert_calls[j].ignition_name) )
                => convert_calls[i].returned = convert_calls[j].returned

\* the struct names of RW_Digital_Out_V2 and of RW_Digital_Out were both computed
C12_Witness ==
    /\ pc = "names"
    /\ Len(convert_calls) = 2
    /\ convert_calls[1].ignition_name = "RW_Digital_Out_V2"
    /\ convert_calls[2].ignition_name = "RW_Digital_Out"
    /\ convert_calls[1].returned = "ST_RW_DigitalOut_HMI_IgnitionExp"
    /\ convert_calls[2].returned = "ST_RW_DigitalOut_HMI_IgnitionExp"

\* C13: each name transform applied to its own output returns that output
\* unchanged: the struct-name transform and the identifier sanitization.
C13_TransformsIdempotent ==
    pc = "names" =>
        /\ \A i, j \in DOMAIN convert_calls :
              convert_calls[j].ignition_name = convert_calls[i].returned
                  => convert_calls[j].returned = convert_calls[i].returned
        /\ \A i, j \in DOMAIN sanitize_calls :
              sanitize_calls[j].name = sanitize_calls[i].returned
                  => sanitize_calls[j].returned = sanitize_calls[i].returned

(***************************************************************************)
(* Properties of the version selection (SpecExtract).                      *)
(***************************************************************************)
Extracted == pc = "extracted" /\ big_json_data[1].kind = "json"
                 /\ "tags" \in DOMAIN big_json_data[1].content

\* the names of the records of the export that carry the required prefix
PrefixedNames ==
    LET t == big_json_data[1].content.tags IN
    { t[i].name : i \in {k \in DOMAIN t : "name" \in DOMAIN t[k] /\ StartsWith(t[k].name, "RW_")} }

\* the priority the rule gives a name: 0 with "test" in it, 1000 + n for a
\* name ending in _V<n>, 100 / 90 / 80 for _new / _reverse / _hybrid, else 50
\* (letter case does not matter)
RulePriority(n) ==
    LET l == Lower(n)
        d == TrailingDigits(l)
    IN
    IF \E k \in 1..Len(l) : k + 3 <= Len(l) /\ SubSeq(l, k, k + 3) = "test" THEN 0
    ELSE IF d >= 1 /\ EndsWith(SubSeq(l, 1, Len(l) - d), "_v")
         THEN 1000 + ParseInt(SubSeq(l, Len(l) - d + 1, Len(l)))
    ELSE IF EndsWith(l, "_new") THEN 100
    ELSE IF EndsWith(l, "_reverse") THEN 90
    ELSE IF EndsWith(l, "_hybrid") THEN 80
    ELSE 50

\* the rule's priority and the derived base name of every name of the export
RulePriorityOf == [n \in ExtractNames |-> RulePriority(n)]
BaseNameOf == [n \in ExtractNames |-> GetBaseName(n)]

\* (priority, name) of m is below that of n
RuleBelow(m, n) ==
    RulePriorityOf[m] < RulePriorityOf[n] \/ (RulePriorityOf[m] = RulePriorityOf[n] /\ StrLess(m, n))

\* C14: of the records of one group (same derived base name) the record
\* selected is the one with the greatest (priority, name) pair, and no other.
C14_GreatestPrioritySelected ==
    Extracted =>
        \A n \in PrefixedNames :
            n \in DOMAIN latest_udts
                <=> \A m \in PrefixedNames :
                        (m # n /\ BaseNameOf[m] = BaseNameOf[n]) => RuleBelow(m, n)

\* the export held RW_Sensor, RW_Sensor_V2 and RW_Sensor_V10 in some order and
\* the numbered version with the greatest number was selected
C14_Witness ==
    /\ Extracted
    /\ PrefixedNames = {"RW_Sensor", "RW_Sensor_V2", "RW_Sensor_V10"}
    /\ DOMAIN latest_udts = {"RW_Sensor_V10"}

\* C15: the selected records are records with the RW_ prefix, one for every
\* derived base name among the prefixed records and no two for the same.
C15_OneSelectedPerBaseName ==
    Extracted =>
        /\ DOMAIN latest_udts \subseteq PrefixedNames
        /\ \A b \in {BaseNameOf[n] : n \in PrefixedNames} :
              Cardinality({n \in DOMAIN latest_udts : BaseNameOf[n] = b}) = 1
        /\ \A n \in DOMAIN latest_udts :
              \E i \in DOMAIN big_json_data[1].content.tags :
                  big_json_data[1].content.tags[i] = latest_udts[n]

\* the export held two records of one group and a record without the prefix,
\* and one record was selected
C15_Witness ==
    /\ Extracted
    /\ Len(big_json_data[1].content.tags) = 3
    /\ \E i \in 1..3 : Get(big_json_data[1].content.tags[i], "name", "") = "Valve_V2"
    /\ PrefixedNames = {"RW_Pump_New", "RW_Pump_hybrid"}
    /\ DOMAIN latest_udts = {"RW_Pump_New"}

(***************************************************************************)
(* Properties of the KEPware -> Beckhoff remap (SpecRemap).                *)
(***************************************************************************)
\* convert_udt read a record and ran the remap on it
RemapRan == pc \in {"converted", "convert_failed"} /\ udt_data[1].kind = "json"
\* ... and wrote the remapped record
Remapped == pc = "converted"

\* the top-level node list of the record as read and as written
InTags == Get(udt_data[1].content, "tags", <<>>)
OutTags == Get(output_file[1], "tags", <<>>)

\* the decision table: "opc" converts, "memory" does not, "expr" and any other
\* or missing valueSource convert exactly with an opcItemPath
RuleConverts(node) ==
    CASE Get(node, "valueSource", "") = "opc"    -> TRUE
      [] Get(node, "valueSource", "") = "memory" -> FALSE
      [] OTHER                                    -> "opcItemPath" \in DOMAIN node

ParameterBinding == [bindType |-> "parameter", binding |-> "{OPCServer}"]

\* C16: a node of the list the remap walks converts by the decision table
\* alone: the nodes the table rejects are left as they were and are the ones
\* counted as skipped, whatever other fields they have; the nodes it accepts
\* are converted (a literal opcServer becomes the parameter binding).
C16_ShouldConvertRule ==
    RemapRan =>
        /\ conversion_stats.tags_skipped
              = Cardinality({i \in DOMAIN InTags : ~RuleConverts(InTags[i])})
        /\ Remapped =>
              /\ Len(OutTags) = Len(InTags)
              /\ \A i \in DOMAIN InTags :
                    /\ ~RuleConverts(InTags[i]) => OutTags[i] = InTags[i]
                    /\ ( /\ RuleConverts(InTags[i])
                         /\ "opcServer" \in DOMAIN InTags[i]
                         /\ IsStr(InTags[i].opcServer) )
                          => OutTags[i].opcServer = ParameterBinding

\* a memory node carrying an opcItemPath was skipped next to an opc node
\* without opcItemPath that was converted
C16_Witness ==
    /\ Remapped
    /\ InTags = <<FullNode(<<"memory">>, TRUE), FullNode(<<"opc">>, FALSE)>>
    /\ conversion_stats.tags_skipped = 1
    /\ OutTags[1] = InTags[1]
    /\ OutTags[2] # InTags[2]

\* a Boolean node computed by bit extraction from the status word
IsBitExtraction(node) ==
    /\ Get(node, "dataType", "") = "Boolean"
    /\ Get(node, "valueSource", "") = "expr"
    /\ "expression" \in DOMAIN node
    /\ \E k \in 1..Len(node.expression) : CharAt(node.expression, k) = "&"
    /\ \E k \in 1..Len(node.expression) :
          k + 12 <= Len(node.expression) /\ SubSeq(node.expression, k, k + 12) = "{[.]S_HMISts}"

C18_ParametersInjected ==
    Remapped =>
        /\ "parameters" \in DOMAIN output_file[1]
        /\ LET new == output_file[1].parameters
               old == Get(udt_data[1].content, "parameters", <<>>)
           IN
           /\ DOMAIN new \cap {"Node", "TIA_PLC_Name", "Datablock_Name"} = {}
           /\ "OPCTagPath" \in DOMAIN new /\ new["OPCTagPath"] = OPCTagPathParameter
           /\ "OPCServer" \in DOMAIN new /\ new["OPCServer"] = OPCServerParameter
           /\ \A k \in DOMAIN old \ {"Node", "TIA_PLC_Name", "Datablock_Name",
                                       "OPCTagPath", "OPCServer"} :
                 k \in DOMAIN new /\ new[k] = old[k]

\* C19: every atomic node of the tree that the decision table accepts, at any
\* depth, is rewritten as the same node at the top level would be.
C19_NestedNodesRemapped ==
    Remapped =>
        \A p \in PathsOf(InTags) :
            LET node == NodeAt(InTags, p) IN
            (~IsFolder(node) /\ RuleConverts(node)) =>
                NodeAt(OutTags, p) = ConvertTag(node, p[Len(p)] - 1, ConversionStatsZero).tag

\* the characters of c outside its placeholders, scanning from position k:
\* a placeholder runs from a "{" to the next "}"
RECURSIVE OutsidePlaceholders(_, _)
OutsidePlaceholders(c, k) ==
    IF k > Len(c) THEN ""
    ELSE IF CharAt(c, k) = "{" /\ \E j \in (k + 1)..Len(c) : CharAt(c, j) = "}"
         THEN OutsidePlaceholders(c,
                  (CHOOSE j \in (k + 1)..Len(c) :
                      CharAt(c, j) = "}" /\ \A h \in (k + 1)..(j - 1) : CharAt(c, h) # "}") + 1)
         ELSE CharAt(c, k) \o OutsidePlaceholders(c, k + 1)

\* the part of b after its last dot (b itself without a dot)
AfterLastDot(b) ==
    LET dots == {k \in 1..Len(b) : CharAt(b, k) = "."} IN
    IF dots = {} THEN b
    ELSE SubSeq(b, (CHOOSE k \in dots : \A h \in dots : h <= k) + 1, Len(b))

HasMarker(b) ==
    \/ \E k \in 1..Len(b) : k + 10 <= Len(b) /\ SubSeq(b, k, k + 10) = "KEPServerEX"
    \/ \E k \in 1..Len(b) : k + 5 <= Len(b) /\ SubSeq(b, k, k + 5) = "{Node}"

HasPlaceholder(t) ==
    \E k \in 1..Len(t) : CharAt(t, k) = "{" /\ \E j \in (k + 1)..Len(t) : CharAt(t, j) = "}"

Saved == pc = "saved"

\* the literal named for a scalar target type
ScalarLiteral(target) ==
    IF target = "BOOL" THEN " := FALSE"
    ELSE IF target \in {"REAL", "LREAL"} THEN " := 0.0"
    ELSE IF target = "STRING" THEN " := ''"
    ELSE IF target = "DT" THEN " := DT#1970-01-01-00:00:00"
    ELSE " := 0"

IsArrayType(target) == Len(target) >= 5 /\ SubSeq(target, 1, 5) = "ARRAY"

\* C21: the declaration line of an atomic entry carries the default literal
\* of its target type when the source type is a key of the table mapped to a
\* scalar, and no default literal when the source type is mapped to an array
\* or is not a key of the table.
C21_DefaultLiteralOnlyForMappedScalars ==
    Saved =>
        \A i \in DOMAIN tags :
            ~IsUdtReference(tags[i]) =>
                LET t == tags[i].dataType IN
                IF t \in DOMAIN DATA_TYPE_MAPPING /\ ~IsArrayType(DATA_TYPE_MAPPING[t])
                THEN Declarations[i].default = ScalarLiteral(DATA_TYPE_MAPPING[t])
                ELSE Declarations[i].default = ""

(***************************************************************************)
(* The shape of the emitted declaration.                                   *)
(***************************************************************************)
StructAnnotations ==
    << Text("    {attribute 'pack_mode' := '1'}"),
       Text("    {attribute 'OPC.UA.DA' := '1'}"),
       Text("    {attribute 'OPC.UA.DA.StructuredType' := '1'}") >>

TypeHeaders == SelectSeq(output[1].declaration, LAMBDA l : l.kind = "type")

\* C22: the declaration written for a loaded record, whatever its entry list,
\* starts with the struct-level annotations, holds exactly one TYPE header
\* naming _convert_to_twincat_name(record name), one declaration per entry,
\* ends with END_STRUCT and END_TYPE, and the DUT Name is that same name.
C22_DeclarationComplete ==
    Saved =>
        LET d == output[1].declaration
            n == ConvertToTwincatName(struct_name)
        IN
        /\ Len(d) >= 5
        /\ SubSeq(d, 1, 3) = StructAnnotations
        /\ Len(TypeHeaders) = 1
        /\ TypeHeaders[1].name = n
        /\ Len(Declarations) = Len(tags)
        /\ d[Len(d) - 1] = Text("    END_STRUCT")
        /\ d[Len(d)] = Text("    END_TYPE")
        /\ output[1].dut_name = n

(***************************************************************************)
(* The batch programs.                                                     *)
(***************************************************************************)
StructBatchEnded == pc = "struct_exited" /\ json_files # <<>>
RemapBatchEnded == pc = "remap_exited" /\ json_files # <<>>

\* number of files of the batch that failed to convert
FailedCount ==
    IF pc = "struct_exited" THEN Len(failed_conversions) ELSE failed_conversions

\* C23: when a batch has gone through its files, the exit status is non-zero
\* if at least one file failed to convert and zero if every file converted.
C23_ExitStatusReflectsFailures ==
    (StructBatchEnded \/ RemapBatchEnded) =>
        (exit_status[1] # 0 <=> FailedCount > 0)

\* the files of the batch, named by position
BatchFileNames == 1..Len(json_files)

\* the file names of the success list and the entries of the failure list:
\* the remap batch keeps two counters and records no file
SuccessList == IF pc = "struct_exited" THEN successful_conversions ELSE <<>>
FailureList == IF pc = "struct_exited" THEN failed_conversions ELSE <<>>
SuccessCount ==
    IF pc = "struct_exited" THEN Len(successful_conversions) ELSE successful_conversions

\* C24 (the count): whatever a file's conversion did, the loop goes through
\* every file once and in order, and successes + failures = number of files.
C24_EveryFileCounted ==
    /\ (pc \in {"struct_loop", "remap_loop"} /\ processed < Len(json_files)) =>
           ENABLED (StructFile \/ RemapFile)
    /\ (StructBatchEnded \/ RemapBatchEnded) =>
           /\ processed = Len(json_files)
           /\ SuccessCount + FailedCount = Len(json_files)

\* C24: at the end of a batch every file is in exactly one of the success
\* list and the failure list, a failure with its reason, and the counts add
\* up to the number of files.
C24_EveryFileRecordedOnce ==
    /\ C24_EveryFileCounted
    /\ (StructBatchEnded \/ RemapBatchEnded) =>
           \A f \in BatchFileNames :
               Cardinality({i \in DOMAIN SuccessList : SuccessList[i] = f})
               + Cardinality({i \in DOMAIN FailureList :
                                 FailureList[i].file = f /\ FailureList[i].reason # ""}) = 1

\* C26: the counters printed after a record of the remap batch are those of
\* a conversion of that record alone, whatever was converted before it.
C26_StatsOfOneRecordOnly ==
    \A i \in DOMAIN stats_log :
        stats_log[i].stats =
            ConvertUdtData(json_files[stats_log[i].file].content, ConversionStatsZero).stats

(***************************************************************************)
(* Defective nodes and reuse of one converter.                             *)
(***************************************************************************)
\* a node list without its entries that are not objects, at every depth
RECURSIVE WithoutNonObjects(_)
WithoutNonObjects(forest) ==
    IF forest = <<>> THEN <<>>
    ELSE IF ~IsJsonObject(Head(forest)) THEN WithoutNonObjects(Tail(forest))
    ELSE IF IsFolder(Head(forest))
    THEN << [Head(forest) EXCEPT !.tags = WithoutNonObjects(@)] >>
         \o WithoutNonObjects(Tail(forest))
    ELSE << Head(forest) >> \o WithoutNonObjects(Tail(forest))

LastLoad == load_calls[Len(load_calls)]

\* the entries of the sound nodes of a record
EntriesOf(content) ==
    ExtractTagsWithNestedStructs(WithoutNonObjects(Get(content, "tags", <<>>)), "",
                                 [tags |-> <<>>, warnings |-> <<>>]).tags

\* C25: the load of a file that holds a parseable record returns True
\* whatever defect one of its nodes has, the entry list then holds the
\* entries of the record's other nodes, and a save that can write its file
\* emits one declaration for each of them.
C25_NodeDefectNeverFailsRecord ==
    load_calls # <<>> =>
        /\ \A i \in DOMAIN load_calls :
               load_calls[i].file.kind = "json" => load_calls[i].returned
        /\ LastLoad.file.kind = "json" =>
               /\ tags = EntriesOf(LastLoad.file.content)
               /\ Saved => Len(Declarations) = Len(tags)

\* C30: after a load that returned True the converter holds the name and the
\* entries of that record only; after a load that returned False it holds
\* no name and no entries, and a save that follows writes no entry.
C30_NoStaleOrPartialRecord ==
    load_calls # <<>> =>
        IF LastLoad.returned
        THEN /\ struct_name = Get(LastLoad.file.content, "name", "UnknownStruct")
             /\ tags = EntriesOf(LastLoad.file.content)
        ELSE /\ struct_name = ""
             /\ tags = <<>>
             /\ Saved => Declarations = <<>>

(***************************************************************************)
(* Version numbers and stacked revision markers (SpecStacked).             *)
(***************************************************************************)
\* <<a>> for a name ending in _V<a>, <<>> for any other name
VersionNumberOf(n) ==
    LET d == TrailingDigits(n) IN
    IF d >= 1 /\ EndsWith(SubSeq(n, 1, Len(n) - d), "_V")
    THEN <<ParseInt(SubSeq(n, Len(n) - d + 1, Len(n)))>> ELSE <<>>

\* m and n are in one group of the extraction
SameGroup(m, n) ==
    \E b \in DOMAIN udt_groups :
        /\ \E i \in DOMAIN udt_groups[b] : udt_groups[b][i].name = m
        /\ \E i \in DOMAIN udt_groups[b] : udt_groups[b][i].name = n

\* C27: of two records of one group whose names end in _V<a> and _V<b> with
\* a < b, the one ending in _V<a> is not selected.
C27_HigherVersionPreferred ==
    Extracted =>
        \A m, n \in PrefixedNames :
            ( /\ SameGroup(m, n)
              /\ VersionNumberOf(m) # <<>> /\ VersionNumberOf(n) # <<>>
              /\ VersionNumberOf(m)[1] < VersionNumberOf(n)[1] )
            => m \notin DOMAIN latest_udts

\* C28: every base name the extraction derives is its own base name, and
\* RW_X_V2_TEST and RW_X_TEST_V2 are grouped under the base name RW_X.
C28_BaseNameIdempotent ==
    Extracted =>
        /\ \A b \in DOMAIN udt_groups : GetBaseName(b) = b
        /\ \A n \in PrefixedNames \cap {"RW_X_V2_TEST", "RW_X_TEST_V2"} :
               \E i \in DOMAIN udt_groups["RW_X"] : udt_groups["RW_X"][i].name = n

\* C29: converting a record that the remap has already written gives the same
\* record again: the second run changes no binding, source mode, server
\* reference, expression or parameter.
C29_RemapIdempotent ==
    pc = "reconverted" => output_file[1] = udt_data[1].content
====
